---- MODULE Spec2Model ----
(***************************************************************************)
(* Model of the uRDF Node-RED runtime plugin                               *)
(* (nodered-urdf/node-red-urdf-plugin/runtime/index.js, second variant,    *)
(* lines 1026-3493): the named-graph store, the debounced application      *)
(* reload, the inference orchestration, the admin HTTP handlers and the    *)
(* IRI dictionary functions.                                               *)
(*                                                                         *)
(* Execution model: Node.js runs one handler at a time; a handler gives up *)
(* control only at an `await`.  Every awaited operation (fetch, urdf.clear,*)
(* urdf.load, urdf.query) is one atomic step of the model, taken together  *)
(* with the synchronous code that follows it up to the next await; steps   *)
(* of different handlers interleave freely.                                *)
(***************************************************************************)
EXTENDS Integers, Sequences, FiniteSets, TLC

----------------------------------------------------------------------------
(* State                                                                   *)

VARIABLES
    store,           \* urdf: named graph id -> set of entries
    now,             \* the clock, ms
    appReloadTimer,  \* the debounce timer of scheduleAppReload
    flowsCfg,        \* what the host answers to GET /flows
    cyc,             \* the reload cycles, in the order their timers fired
    ncyc,            \* calls of loadApplicationFromFlows so far
    evTimes,         \* history: arrival times of the host flow events
    http,            \* the admin HTTP request being handled
    nhttp,           \* admin HTTP requests so far
    resp,            \* the last HTTP response
    dataset,         \* a JSON-LD dataset, uncompressed
    query,           \* a SPARQL query over it, as submitted
    answer,          \* the bindings: evaluated directly, and as served
    roundTrip,       \* the dataset flattened, compressed and expanded again
    word,            \* a string taken through z and expandZToken
    boot,            \* the startup loaders of the plugin
    crud             \* rules CRUD requests in flight together

----------------------------------------------------------------------------
(* Bounds of the model                                                     *)

MaxCycles == 2      \* reload cycles (timer callbacks) per behaviour
MaxEvents == 3      \* host flow events per behaviour
MaxTime   == 750    \* the clock stops advancing here (ms)
TickMs    == 125    \* granularity of the clock (ms)
MaxHttp   == 1      \* admin HTTP requests per behaviour
MaxTriples == 2     \* triples of a dataset submitted for querying
MaxOps == 3         \* applications of z / expandZToken to one string

----------------------------------------------------------------------------
(* Program constants                                                       *)

DEBOUNCE_MS == 250
maxAttempts == 30

GID_RULES    == "urn:nrua:rules"
GID_INFERRED == "urn:graph:inferred"
GID_APP      == "urn:nrua:app"
GID_OTHER    == "urn:example:graph"

Gids == {GID_RULES, GID_INFERRED, GID_APP, GID_OTHER}

RDF_TYPE    == "http://www.w3.org/1999/02/22-rdf-syntax-ns#type"
SCHEMA_TEXT == "https://schema.org/text"
NRUA_RULE   == "https://w3id.org/nodered-ontology-based-program-analysis/nodered-user-application-ontology#Rule"
NRUA_NODE   == "nrua:Node"
URN_DERIVED == "urn:derived"
URN_AGAIN   == "urn:again"

\* zurl.json as deployed, parsed.  A file is a JSON array or another JSON
\* value; an item of the array that is not a string stands here as its
\* JSON text, which is no IRI.
zurlJson == [array |-> TRUE, items |-> << RDF_TYPE, SCHEMA_TEXT, URN_DERIVED, NRUA_NODE >>]

\* loadZurlJsonOnStartup: the parsed file when it is an array, whatever
\* its items; [] otherwise.
loadZurlJsonOnStartup(file) == IF file.array THEN file.items ELSE << >>

\* The IRI dictionary: index i (0-based) defines z:i.
ZURL == boot.zurl

Reasons == {"flows:started", "flows:deployed", "flows:updated"}

----------------------------------------------------------------------------
(* JSON-LD values.  A stored node is represented by its entries: one entry *)
(* per (subject @id, key, value); arr says whether the key maps to an      *)
(* array in the node object.                                               *)

IdObj(v)  == [k |-> "id",  v |-> v]
LitObj(v) == [k |-> "lit", v |-> v]

\* An embedded node object as a value: its @id ("" when it has none) and
\* its @type.
NodeObj(v, t) == [k |-> "node", v |-> v, t |-> t]

Entry(s, p, o) == [s |-> s, p |-> p, o |-> o, arr |-> TRUE]

ZTok(i) == "z:" \o ToString(i)

\* z(iri): "z:"+ZURL.indexOf(iri) when the dictionary includes iri.
MinIndexOf(iri) == CHOOSE i \in 1..Len(ZURL) :
                      /\ ZURL[i] = iri
                      /\ \A j \in 1..Len(ZURL) : ZURL[j] = iri => i <= j

z(iri) == IF \E i \in 1..Len(ZURL) : ZURL[i] = iri
          THEN ZTok(MinIndexOf(iri) - 1)
          ELSE iri

\* expandZToken(s): the IRI at the index of an exact token z:<n> in range.
expandZToken(s) == IF \E i \in 1..Len(ZURL) : s = ZTok(i - 1)
                   THEN ZURL[(CHOOSE i \in 1..Len(ZURL) : s = ZTok(i - 1))]
                   ELSE s

IsKeyword(key) == key \in {"@id", "@type", "@value", "@graph", "@language", "@context"}

\* compressGraph on one entry: keys that are not keywords, @type members
\* and @id strings go through the dictionary; literal payloads do not.
compressEntry(e) ==
    [s   |-> z(e.s),
     p   |-> IF IsKeyword(e.p) THEN e.p ELSE z(e.p),
     o   |-> IF e.o.k = "id" THEN IdObj(z(e.o.v))
             ELSE IF e.o.k = "node" THEN NodeObj(z(e.o.v), z(e.o.t))
             ELSE e.o,
     arr |-> e.arr]

compressGraph(g) == { compressEntry(e) : e \in g }

\* expandCompressedGraphDeep on one entry: every string that is exactly a
\* token is expanded, keys and values alike.
expandEntryDeep(e) ==
    [s   |-> expandZToken(e.s),
     p   |-> expandZToken(e.p),
     o   |-> [e.o EXCEPT !.v = expandZToken(e.o.v)],
     arr |-> e.arr]

expandCompressedGraphDeep(g) == { expandEntryDeep(e) : e \in g }

----------------------------------------------------------------------------
(* Flow -> graph translation, reduced to the node ids of the configuration *)

NodeIds == {"n1", "n2"}

\* What GET /flows can hold: the set of ids of the non-tab nodes.
FlowConfigs == { {"n1"}, {"n1", "n2"} }

appId == "urn:nrua:a"

nodeId(id) == "urn:nrua:n" \o id

buildAppJsonLdFromFlows(flows) ==
    { Entry(appId, "@type", IdObj(z("https://schema.org/Application"))) }
    \cup { Entry(nodeId(n), "@type", IdObj(z(NRUA_NODE))) : n \in flows }

\* The final check before load: some key other than @id is not an array.
findFirstNonArrayPredicate(doc) == \E e \in doc : e.p # "@id" /\ ~e.arr

----------------------------------------------------------------------------
(* Rules.  A rule node of the rules graph is the entry                     *)
(* (rule @id, schema:text, program text); the program texts of the model   *)
(* are named by what the evaluator answers for them.                       *)

Q_APP  == "SELECT ?s ?p ?o over the application graph"
Q_INF  == "SELECT ?s ?p ?o over the inferred graph"
Q_BAD  == "text the evaluator rejects"
Q_PV   == "SELECT ?s ?p ?o with ?p bound to urn:nrua:pv:tmp, over the application graph"

RuleTexts == {Q_APP, Q_INF, Q_BAD, Q_PV}

\* An N3 rule: its program text, with the projection query that its
\* schema:hasPart part holds (extractN3ProjectionSparql returns it).
N3(projection) == "N3 program; projection: " \o projection

\* No rule is taken for an N3 rule.
isN3RuleNever(text) == FALSE

\* isN3Rule(rule): programming language or encoding format says n3
isN3Rule(text) == \E projection \in RuleTexts : text = N3(projection)

RuleIds == <<"urn:rule:1", "urn:rule:2">>

\* A rule resource as stored (flattened and compressed).
RuleNode(id, text) ==
    compressGraph({ Entry(id, "@type", IdObj(NRUA_RULE)),
                    Entry(id, SCHEMA_TEXT, LitObj(text)) })

\* isRuleNode(n): @type includes NRUA_RULE or z(NRUA_RULE)
isRuleNode(graph, id) ==
    \E e \in graph : /\ e.s = id /\ e.p = "@type"
                      /\ e.o.v \in {NRUA_RULE, z(NRUA_RULE)}

\* An evaluator that accepts every text.
QueryThrowsNever(text) == FALSE

\* urdf.query throws for this text: the rejected query, and an N3 program,
\* which is not a query.
QueryThrows(text) == text = Q_BAD \/ \E projection \in RuleTexts : text = N3(projection)

\* urdf.query(rewriteQuery(text)) followed by expandCompressedQueryDeep:
\* the {s,p,o} bindings, over the store as it is when the query runs.
QueryBindings(text, st) ==
    IF text = Q_APP
    THEN { Entry(expandZToken(e.s), URN_DERIVED, LitObj("same")) :
             e \in { x \in st[GID_APP] : x.o = IdObj(z(NRUA_NODE)) } }
    ELSE IF text = Q_INF
    THEN { Entry(expandZToken(e.s), URN_AGAIN, LitObj("same")) :
             e \in { x \in st[GID_INFERRED] : x.p = z(URN_DERIVED) } }
    ELSE IF text = Q_PV
    THEN { Entry(expandZToken(e.s), "urn:nrua:pv:tmp", LitObj("same")) :
             e \in { x \in st[GID_APP] : x.o = IdObj(z(NRUA_NODE)) } }
    ELSE {}

\* eyeling.reasonStream over the projected facts and the N3 program: the
\* facts derived, among them helper facts with an internal predicate.
reasonStream(facts) ==
    UNION { { Entry(f.s, URN_DERIVED, LitObj("n3")),
              Entry(f.s, "urn:nrua:pv:tmp", LitObj("n3")) } : f \in facts }

\* No predicate is taken for an internal one.
startsWithInternalPrefixNever(pIri) == FALSE

\* pIri.startsWith("urn:nrua:pv:")
startsWithInternalPrefix(pIri) == pIri \in {"urn:nrua:pv:tmp"}

\* rulesGraph.filter(isRuleNode), in the order of the graph array.
RulesOf(graph) ==
    LET rulesGraph == expandCompressedGraphDeep(graph)
        texts(i) == { e.o.v : e \in { x \in rulesGraph :
                                        x.s = RuleIds[i] /\ x.p = SCHEMA_TEXT } }
        present  == { i \in 1..Len(RuleIds) :
                        isRuleNode(rulesGraph, RuleIds[i]) /\ texts(i) # {} }
        F[k \in 0..Len(RuleIds)] ==
            IF k = 0 THEN << >>
            ELSE IF k \in present
                 THEN Append(F[k - 1], [id |-> RuleIds[k], text |-> CHOOSE t \in texts(k) : TRUE])
                 ELSE F[k - 1]
    IN F[Len(RuleIds)]

\* The rules file loaded at startup.
StartupRules == { {},
                  RuleNode(RuleIds[1], Q_APP),
                  RuleNode(RuleIds[1], Q_APP) \cup RuleNode(RuleIds[2], Q_INF),
                  RuleNode(RuleIds[1], Q_APP) \cup RuleNode(RuleIds[2], Q_BAD) }

----------------------------------------------------------------------------
(* Groups of variables, idle values                                        *)

vars == << store, now, appReloadTimer, flowsCfg, cyc, ncyc, evTimes, http, nhttp, resp,
          dataset, query, answer, roundTrip, word, boot, crud >>

reloadVars == << appReloadTimer, flowsCfg, ncyc, evTimes, now >>
httpVars   == << http, nhttp, resp >>
queryVars  == << dataset, query, answer >>
runtimeVars == << store, reloadVars, cyc, httpVars >>
otherVars  == << queryVars, roundTrip, word, boot, crud >>

NoRoundTrip == [done |-> FALSE, graph |-> {}]

\* RED.comms as the runtime offers it: publishing works, publish throws,
\* or there is no comms channel (headless).
CommsModes == {"ok", "throws", "absent"}

\* The startup loaders all finished, the editor channel working.
Booted == [onto |-> "done", rules |-> "done", env |-> "loaded", attempt |-> 1,
           app |-> "started", log |-> << >>, comms |-> "ok", eyeling |-> TRUE,
           file |-> zurlJson, zurl |-> loadZurlJsonOnStartup(zurlJson)]
NoWord == [src |-> "", cur |-> "", ops |-> << >>]

NoResult == [done |-> FALSE, ok |-> TRUE, status |-> 0, results |-> {}]
NoAnswer == [direct |-> NoResult, served |-> NoResult]
NoQuery  == [s |-> [k |-> "var", v |-> "s"], p |-> [k |-> "var", v |-> "p"],
             o |-> [k |-> "var", v |-> "o"], pre |-> << >>, post |-> << >>,
             filter |-> << >>]

NoTimer == [armed |-> FALSE, at |-> 0]

IdleCycle == [pc |-> "idle", appDoc |-> {},
              rules |-> << >>, idx |-> 0, bySubject |-> {}, firedTriples |-> 0,
              priorInf |-> {}, priorApp |-> {}, ops |-> 0, foreign |-> FALSE,
              fetched |-> "", flows |-> {}, after |-> {}, overlap |-> FALSE,
              trace |-> << >>]

Cycles == 1..MaxCycles

NoRequest == [pc |-> "idle", gid |-> "", data |-> {}, rest |-> {}, prior |-> {},
              foreign |-> FALSE]

NoResponse == [op |-> "none", status |-> 0, ok |-> TRUE, gid |-> "", graph |-> {},
               mid |-> {}, complete |-> {}, prior |-> {}, data |-> {},
               after |-> {}, foreign |-> FALSE]

InitRuntime ==
    /\ store \in { [g \in Gids |-> IF g = GID_RULES THEN r ELSE {}] : r \in StartupRules }
    /\ now = 0
    /\ appReloadTimer = NoTimer
    /\ flowsCfg \in FlowConfigs
    /\ cyc = [c \in Cycles |-> IdleCycle]
    /\ ncyc = 0
    /\ evTimes = << >>
    /\ http = NoRequest
    /\ nhttp = 0
    /\ resp = NoResponse

Init ==
    /\ boot = Booted
    /\ InitRuntime
    /\ dataset = {}
    /\ query = NoQuery
    /\ answer = NoAnswer
    /\ roundTrip = NoRoundTrip
    /\ word = NoWord
    /\ crud = << >>

----------------------------------------------------------------------------
(* Store operations                                                        *)

\* urdf.clear(gid)
Clear(st, gid) == [st EXCEPT ![gid] = {}]

\* urdf.load([{ "@id": gid, "@graph": graph }]): union into the graph
Load(st, gid, graph) == [st EXCEPT ![gid] = @ \cup graph]

\* A cycle is inside recomputeInferencesFromRules
InRun(c) == cyc[c].pc \in {"rule", "clearInf", "loadInf", "clearInfEmpty"}

\* History: another actor than cycle `writer` writes graph gid while a
\* cycle is replacing it; that cycle notes it (writer 0 is an HTTP handler).
NoteForeign(cy, writer, gid) ==
    [c \in Cycles |->
        IF /\ c # writer
           /\ \/ gid = GID_INFERRED /\ InRun(c)
              \/ gid = GID_APP /\ cy[c].pc = "loadApp"
        THEN [cy[c] EXCEPT !.foreign = TRUE]
        ELSE cy[c]]

\* History: a cycle writes the graph an HTTP handler is replacing.
HttpForeign(gid) ==
    IF http.pc # "idle" /\ http.gid = gid
    THEN [http EXCEPT !.foreign = TRUE]
    ELSE http

----------------------------------------------------------------------------
(* Debounce: scheduleAppReload and the clock                               *)

\* A timer without delay: setTimeout(..., 0)
TimerDeadlineNoDelay(t) == t

\* setTimeout(..., 250): the deadline of a timer armed at time t
TimerDeadline(t) == t + DEBOUNCE_MS

\* RED.events.on("flows:started" | "flows:deployed" | "flows:updated")
\* -> scheduleAppReload(reason): clearTimeout, then setTimeout
scheduleAppReload(reason) ==
    /\ Len(evTimes) < MaxEvents
    /\ ncyc < MaxCycles
    /\ \E cfg \in FlowConfigs : flowsCfg' = cfg
    /\ appReloadTimer' = [armed |-> TRUE, at |-> TimerDeadline(now)]
    /\ evTimes' = Append(evTimes, now)
    /\ UNCHANGED << store, now, cyc, ncyc, httpVars >>
    /\ UNCHANGED otherVars

FlowEvent == \E reason \in Reasons : scheduleAppReload(reason)

\* Time passes; it never passes the deadline of an armed timer without the
\* callback having run (a due timer runs before later events are handled).
Tick ==
    /\ now < MaxTime
    /\ ~(appReloadTimer.armed /\ now >= appReloadTimer.at)
    /\ now' = IF appReloadTimer.armed /\ appReloadTimer.at < now + TickMs
              THEN appReloadTimer.at
              ELSE now + TickMs
    /\ UNCHANGED << store, appReloadTimer, flowsCfg, cyc, ncyc, evTimes, httpVars >>
    /\ UNCHANGED otherVars

\* Time passes until the armed timer is due (the clock at the granularity
\* of the debounce window).
Elapse ==
    /\ appReloadTimer.armed
    /\ now < appReloadTimer.at
    /\ now' = appReloadTimer.at
    /\ UNCHANGED << store, appReloadTimer, flowsCfg, cyc, ncyc, evTimes, httpVars >>
    /\ UNCHANGED otherVars

----------------------------------------------------------------------------
(* loadApplicationFromFlows and recomputeInferencesFromRules               *)

\* Cycle c is between its first and its last store operation.
Mid(c) == cyc[c].pc \in {"loadApp", "rule", "clearInf", "loadInf", "clearInfEmpty"}

Step(c, tags) == [cyc[c] EXCEPT !.trace = @ \o tags]

\* A store operation of cycle c (clear, load or query); history: it is
\* noted when an earlier cycle is between its first and last operation.
StoreOp(c, tags) ==
    [Step(c, tags) EXCEPT !.ops = @ + 1,
                          !.overlap = @ \/ \E c1 \in Cycles : c1 < c /\ Mid(c1)]

\* The timer callback: loadApplicationFromFlows(reason) runs up to
\* `await fetchAdminJson("/flows")`.
TimerFire ==
    /\ appReloadTimer.armed
    /\ now >= appReloadTimer.at
    /\ ncyc < MaxCycles
    /\ ncyc' = ncyc + 1
    /\ cyc' = [cyc EXCEPT ![ncyc + 1] =
                 [IdleCycle EXCEPT !.pc = "fetch"]]
    /\ appReloadTimer' = NoTimer
    /\ UNCHANGED << store, now, flowsCfg, evTimes, httpVars >>
    /\ UNCHANGED otherVars

FetchOutcomes == {"ok", "httpError", "notArray"}

\* Without the Array.isArray check and with fetch errors swallowed
FlowsUsableUnchecked(outcome) == TRUE

\* The fetched value can be submitted: an array was returned.
FlowsUsable(outcome) == outcome = "ok"

\* fetchAdminJson("/flows") completes; the array check, the translation
\* and the final check follow.  A throw ends the cycle in the catch of
\* scheduleAppReload, which publishes appLoad ok:false.
\* An application document whose ids take the number of the load into them.
appDocPerLoad(flows) ==
    { [e EXCEPT !.s = e.s \o "-" \o ToString(ncyc)] : e \in buildAppJsonLdFromFlows(flows) }

\* const appDoc = buildAppJsonLdFromFlows(flows): the flows fetched and the
\* dictionary are all the translator reads.
appDocOf(flows) == buildAppJsonLdFromFlows(flows)

FetchFlows(c) ==
    /\ cyc[c].pc = "fetch"
    /\ \E outcome \in FetchOutcomes :
         LET appDoc == appDocOf(flowsCfg) IN
         IF FlowsUsable(outcome) /\ ~findFirstNonArrayPredicate(appDoc)
         THEN cyc' = [cyc EXCEPT ![c] = [Step(c, << >>) EXCEPT
                         !.pc = "clearApp", !.appDoc = appDoc, !.fetched = outcome,
                         !.flows = flowsCfg]]
         ELSE cyc' = [cyc EXCEPT ![c] = [Step(c, <<"ev:appLoad:fail">>) EXCEPT
                         !.pc = "failed", !.fetched = outcome]]
    /\ UNCHANGED << store, reloadVars, httpVars >>
    /\ UNCHANGED otherVars

\* await urdf.clear(GID_APP)
ClearApp(c) ==
    /\ cyc[c].pc = "clearApp"
    /\ store' = Clear(store, GID_APP)
    /\ cyc' = [NoteForeign(cyc, c, GID_APP) EXCEPT ![c] =
                 [StoreOp(c, <<"clear:app">>) EXCEPT
                     !.pc = "loadApp", !.priorApp = store[GID_APP]]]
    /\ http' = HttpForeign(GID_APP)
    /\ UNCHANGED << reloadVars, nhttp, resp >>
    /\ UNCHANGED otherVars

\* A run that treats an empty rules graph like any other.
AfterRulesReadNoShortcut(compressedRulesGraph, rules) ==
    IF Len(rules) = 0 THEN "clearInf" ELSE "rule"

\* Where recomputeInferencesFromRules goes after reading the rules graph
AfterRulesRead(compressedRulesGraph, rules) ==
    IF compressedRulesGraph = {} THEN "clearInfEmpty"
    ELSE IF Len(rules) = 0 THEN "clearInf"
    ELSE "rule"

\* await urdf.load(appDoc); then recomputeInferencesFromRules(reason) runs
\* up to its first await: it reads the rules graph.
LoadApp(c) ==
    /\ cyc[c].pc = "loadApp"
    /\ \E loaded \in BOOLEAN :
         IF loaded
         THEN LET rules == RulesOf(store[GID_RULES]) IN
              /\ store' = Load(store, GID_APP, cyc[c].appDoc)
              /\ cyc' = [cyc EXCEPT ![c] =
                           [StoreOp(c, <<"load:app">>) EXCEPT
                               !.pc = AfterRulesRead(store[GID_RULES], rules),
                               !.rules = rules, !.idx = 1,
                               !.priorInf = store[GID_INFERRED]]]
         ELSE /\ store' = store
              /\ cyc' = [cyc EXCEPT ![c] =
                           [StoreOp(c, <<"loadfail:app", "ev:appLoad:fail">>) EXCEPT
                               !.pc = "failed", !.after = store[GID_APP]]]
    /\ http' = HttpForeign(GID_APP)
    /\ UNCHANGED << reloadVars, nhttp, resp >>
    /\ UNCHANGED otherVars

\* One rule of the loop: await urdf.query(rewriteQuery(q)), then the
\* bindings are added to bySubject.  A throw is caught by the try/catch of
\* recomputeInferencesFromRules (inference ok:false); the caller then
\* publishes appUpdate ok:true.
RunRule(c) ==
    /\ cyc[c].pc = "rule"
    /\ LET rule == cyc[c].rules[cyc[c].idx]
           goOn == IF cyc[c].idx = Len(cyc[c].rules) THEN "clearInf" ELSE "rule"
       IN
       IF isN3Rule(rule.text)
       THEN \* N3 path: the projection query; a throw skips the rule.  Then
            \* the reasoner, when there is one; what it throws is caught.
            \* Derived facts go to bySubject, firedTriples is not touched.
            LET projection == CHOOSE q \in RuleTexts : rule.text = N3(q) IN
            IF QueryThrows(projection)
            THEN cyc' = [cyc EXCEPT ![c] =
                           [StoreOp(c, <<"projfail">>) EXCEPT !.pc = goOn, !.idx = @ + 1]]
            ELSE \E reasoned \in BOOLEAN :
                   LET derived ==
                         IF boot.eyeling /\ reasoned
                         THEN { t \in reasonStream(QueryBindings(projection, store)) :
                                  ~startsWithInternalPrefix(t.p) }
                         ELSE {}
                   IN cyc' = [cyc EXCEPT ![c] =
                                [StoreOp(c, <<"query">>) EXCEPT
                                    !.pc = goOn, !.idx = @ + 1,
                                    !.bySubject = @ \cup derived]]
       ELSE
       IF QueryThrows(rule.text)
       THEN cyc' = [cyc EXCEPT ![c] =
                      [StoreOp(c, <<"queryfail", "ev:inference:fail", "ev:appUpdate:ok">>) EXCEPT
                          !.pc = "done"]]
       ELSE LET b == QueryBindings(rule.text, store) IN
            cyc' = [cyc EXCEPT ![c] =
                      [StoreOp(c, <<"query">>) EXCEPT
                          !.pc = goOn,
                          !.idx = @ + 1,
                          !.bySubject = @ \cup b,
                          !.firedTriples = @ + Cardinality(b)]]
    /\ UNCHANGED << store, reloadVars, httpVars >>
    /\ UNCHANGED otherVars

\* await urdf.clear(GID_INFERRED), step 4 of the run
ClearInf(c) ==
    /\ cyc[c].pc = "clearInf"
    /\ store' = Clear(store, GID_INFERRED)
    /\ cyc' = [NoteForeign(cyc, c, GID_INFERRED) EXCEPT ![c] =
                 [StoreOp(c, <<"clear:inf">>) EXCEPT !.pc = "loadInf"]]
    /\ http' = HttpForeign(GID_INFERRED)
    /\ UNCHANGED << reloadVars, nhttp, resp >>
    /\ UNCHANGED otherVars

\* The inference event published before the load is awaited
LoadInfTagsPublishFirst == <<"ev:inference:ok", "load:inf", "ev:appUpdate:ok">>

\* What a successful end of the run does, in order: the load completes,
\* the inference event is published and, back in the caller, appUpdate.
LoadInfTags == <<"load:inf", "ev:inference:ok", "ev:appUpdate:ok">>

\* await urdf.load([{ "@id": GID_INFERRED, "@graph": compressGraph(...) }]),
\* then the inference event and, back in the caller, the appUpdate event.
LoadInf(c) ==
    /\ cyc[c].pc = "loadInf"
    /\ \E loaded \in BOOLEAN :
         IF loaded
         THEN /\ store' = Load(store, GID_INFERRED, compressGraph(cyc[c].bySubject))
              /\ cyc' = [NoteForeign(cyc, c, GID_INFERRED) EXCEPT ![c] =
                           [StoreOp(c, LoadInfTags) EXCEPT
                               !.pc = "done", !.after = store'[GID_INFERRED]]]
         ELSE /\ store' = store
              /\ cyc' = [cyc EXCEPT ![c] =
                           [StoreOp(c, <<"loadfail:inf", "ev:inference:fail", "ev:appUpdate:ok">>) EXCEPT
                               !.pc = "done", !.after = store[GID_INFERRED]]]
    /\ http' = HttpForeign(GID_INFERRED)
    /\ UNCHANGED << reloadVars, nhttp, resp >>
    /\ UNCHANGED otherVars

\* The rules graph was empty: await urdf.clear(GID_INFERRED), publish
\* "no rules", return.
ClearInfEmpty(c) ==
    /\ cyc[c].pc = "clearInfEmpty"
    /\ store' = Clear(store, GID_INFERRED)
    /\ cyc' = [NoteForeign(cyc, c, GID_INFERRED) EXCEPT ![c] =
                 [StoreOp(c, <<"clear:inf", "norules", "ev:inference:ok", "ev:appUpdate:ok">>) EXCEPT
                     !.pc = "done"]]
    /\ http' = HttpForeign(GID_INFERRED)
    /\ UNCHANGED << reloadVars, nhttp, resp >>
    /\ UNCHANGED otherVars

----------------------------------------------------------------------------
(* Admin HTTP handlers                                                     *)

\* flattenJsonLd on one entry: every predicate and @type become arrays;
\* other JSON-LD keywords are kept as they are.
flattenEntry(e) ==
    [e EXCEPT !.arr = IF IsKeyword(e.p) /\ e.p # "@type" THEN e.arr ELSE TRUE]

\* flattenJsonLd on a graph array.  A top-level node without an @id (its
\* entries have s = "") is passed over.  An embedded node object is
\* extracted: merged into the graph under its @id, or under newBNodeId()
\* when it has none, a reference left in its place.  existingIds holds the
\* @ids of the top-level nodes; the graphs here have at most one embedded
\* node without an @id, so newBNodeId is called at most once.
flattenJsonLd(g) ==
    LET existingIds == { e.s : e \in g } \ {""}
        newBNodeId  == LET free == { c \in 0..Cardinality(existingIds) :
                                       ("_:b" \o ToString(c)) \notin existingIds }
                       IN  "_:b" \o ToString(CHOOSE c \in free : \A d \in free : c <= d)
        idOf(o)     == IF o.v = "" THEN newBNodeId ELSE o.v
        top         == { e \in g : e.s # "" }
    IN  { flattenEntry(e) : e \in { x \in top : x.o.k # "node" } }
        \cup { [flattenEntry(e) EXCEPT !.o = IdObj(idOf(e.o))] :
                 e \in { x \in top : x.o.k = "node" } }
        \cup { Entry(idOf(e.o), "@type", IdObj(e.o.t)) :
                 e \in { x \in top : x.o.k = "node" } }

\* Graphs a reader may take for complete while cycle c is in its run: the
\* inferred graph from before the cycle and, once computed, the fresh one.
CompleteGraphs(c) ==
    { expandCompressedGraphDeep(cyc[c].priorInf) } \cup
    ( IF cyc[c].pc = "loadInf"
      THEN { expandCompressedGraphDeep(compressGraph(cyc[c].bySubject)) }
      ELSE {} )

\* publish(event) without its guards: the call of RED.comms.publish alone.
publishUnguarded(mode) == IF mode = "ok" THEN "returned" ELSE "thrown"

\* publish(event): the call is skipped when RED.comms.publish is not a
\* function, and whatever it throws is caught and dropped.
publish(mode) ==
    IF mode = "absent"
    THEN "returned"
    ELSE IF mode = "throws" THEN "returned" ELSE "returned"

\* publish(...) and then res.status(status).json(payload); the rules
\* endpoints respond without publishing.  A handler that ends in publish
\* sends nothing (status 0).
Respond(op, status, gid) ==
    IF op \in {"rulesCreate", "rulesDelete"} \/ publish(boot.comms) = "returned"
    THEN [NoResponse EXCEPT !.op = op, !.status = status, !.ok = (status = 200),
                            !.gid = gid]
    ELSE [NoResponse EXCEPT !.op = op, !.ok = FALSE, !.gid = gid]

\* GET /urdf/graph?gid=...: a synchronous handler
GetGraph(gid) ==
    /\ nhttp < MaxHttp
    /\ http.pc = "idle"
    /\ nhttp' = nhttp + 1
    /\ resp' = [Respond("graph", 200, gid) EXCEPT
                  !.graph    = expandCompressedGraphDeep(store[gid]),
                  !.mid      = { c \in Cycles : InRun(c) /\ ~cyc[c].foreign },
                  !.complete = UNION { CompleteGraphs(c) :
                                         c \in { x \in Cycles : InRun(x) /\ ~cyc[x].foreign } }]
    /\ UNCHANGED << store, cyc, reloadVars, http >>
    /\ UNCHANGED otherVars

\* GET /urdf/node?id=...&gid=...: the node as urdf.find returns it.  What
\* find does for an id the graph does not hold is the library's choice: a
\* rejection (404) or an empty result.
GetNode(id, gid) ==
    /\ nhttp < MaxHttp
    /\ http.pc = "idle"
    /\ nhttp' = nhttp + 1
    /\ LET node == { e \in store[gid] : e.s = id }
       IN  \E status \in IF node = {} THEN {200, 404} ELSE {200} :
             resp' = [Respond("node", status, gid) EXCEPT !.graph = node]
    /\ UNCHANGED << store, cyc, reloadVars, http >>
    /\ UNCHANGED otherVars

\* POST /urdf/clear { gid }
PostClear(gid) ==
    /\ nhttp < MaxHttp
    /\ http.pc = "idle"
    /\ nhttp' = nhttp + 1
    /\ store' = Clear(store, gid)
    /\ cyc' = NoteForeign(cyc, 0, gid)
    /\ resp' = Respond("clear", 200, gid)
    /\ UNCHANGED << reloadVars, http >>
    /\ UNCHANGED otherVars

\* Request bodies of POST /urdf/load and POST /urdf/loadFile: the @id of the
\* document ("" when it has none) and the entries of its @graph.
ScalarEntry(s, p, o) == [Entry(s, p, o) EXCEPT !.arr = FALSE]

Docs ==
    { [id |-> d.id, graph |-> d.graph, rest |-> {}] :
        d \in { [id |-> GID_OTHER,    graph |-> { Entry("urn:x", URN_DERIVED, LitObj("N")) }],
                [id |-> GID_OTHER,    graph |-> { ScalarEntry("urn:x", "urn:p", LitObj("N")) }],
                [id |-> GID_INFERRED, graph |-> { Entry("urn:x", "urn:p", LitObj("N")) }],
                [id |-> "",           graph |-> { Entry("urn:x", "urn:p", LitObj("N")) }],
                [id |-> " ",          graph |-> { Entry("urn:x", "urn:p", LitObj("N")) }],
                [id |-> " urn:example:graph ",
                                      graph |-> { Entry("urn:x", URN_DERIVED, LitObj("N")) }] } }
    \cup
    \* an array document of two graph objects: rest holds those after the first
    { [id |-> GID_OTHER, graph |-> { Entry("urn:x", URN_DERIVED, LitObj("N")) },
       rest |-> { [id |-> GID_APP, graph |-> { Entry("urn:y", "urn:p", LitObj("N")) }] }] }

\* String.prototype.trim on the @id values used here.
Trim(s) ==
    CASE s = " "                   -> ""
      [] s = " urn:example:graph " -> GID_OTHER
      [] OTHER                     -> s

\* A graph id is always found: the example graph when the document names none.
gidOfOrDefault(doc) == IF Trim(doc.id) = "" THEN GID_OTHER ELSE Trim(doc.id)

\* The gid of an uploaded document: the trimmed @id of the document (of its
\* first element when it is an array), "" (null) when that is not a string
\* or is blank.
gidOf(doc) == IF Trim(doc.id) # "" THEN Trim(doc.id) ELSE ""

\* POST /urdf/load: await urdf.load(flattenJsonLd(compressGraph(body)))
PostLoad(body) ==
    /\ nhttp < MaxHttp
    /\ http.pc = "idle"
    /\ body.id \in Gids
    /\ body.rest = {}
    /\ nhttp' = nhttp + 1
    /\ \E loaded \in BOOLEAN :
         IF loaded
         THEN /\ store' = Load(store, z(body.id), flattenJsonLd(compressGraph(body.graph)))
              /\ cyc' = NoteForeign(cyc, 0, z(body.id))
              /\ resp' = Respond("load", 200, z(body.id))
         ELSE /\ store' = store
              /\ cyc' = cyc
              /\ resp' = Respond("load", 500, z(body.id))
    /\ UNCHANGED << reloadVars, http >>
    /\ UNCHANGED otherVars

\* POST /urdf/loadFile { doc }: 400 without an @id; else await
\* urdf.clear(gid), and the load is pending.
PostLoadFile(doc) ==
    /\ nhttp < MaxHttp
    /\ http.pc = "idle"
    /\ nhttp' = nhttp + 1
    /\ IF gidOf(doc) = ""
       THEN /\ resp' = Respond("loadFile", 400, "")
            /\ UNCHANGED << store, cyc, http >>
       ELSE /\ store' = Clear(store, gidOf(doc))
            /\ cyc' = NoteForeign(cyc, 0, gidOf(doc))
            /\ http' = [pc |-> "loadFile", gid |-> gidOf(doc), data |-> doc.graph,
                        rest |-> doc.rest,
                        prior |-> store[gidOf(doc)], foreign |-> FALSE]
            /\ resp' = resp
    /\ UNCHANGED reloadVars
    /\ UNCHANGED otherVars

\* The rule resources a client posts to /urdf/rules/create
NewRules == { [id |-> RuleIds[2], text |-> Q_INF], [id |-> RuleIds[1], text |-> Q_APP] }

\* POST /urdf/rules/create { rule }: 409 when a node of the rules graph has
\* the @id of the rule; else replaceNamedGraph(GID_RULES,
\* flattenJsonLd(compressGraph(graph + rule))), whose clear runs first.
RulesCreate(rule) ==
    /\ nhttp < MaxHttp
    /\ http.pc = "idle"
    /\ nhttp' = nhttp + 1
    /\ LET graph == store[GID_RULES] IN
       IF \E n \in graph : n.s = rule.id
       THEN /\ resp' = Respond("rulesCreate", 409, GID_RULES)
            /\ UNCHANGED << store, cyc, http >>
       ELSE /\ store' = Clear(store, GID_RULES)
            /\ cyc' = NoteForeign(cyc, 0, GID_RULES)
            /\ http' = [pc |-> "rulesCreate", gid |-> GID_RULES, rest |-> {},
                        data |-> flattenJsonLd(compressGraph(
                                   graph \cup { Entry(rule.id, "@type", IdObj(NRUA_RULE)),
                                                Entry(rule.id, SCHEMA_TEXT, LitObj(rule.text)) })),
                        prior |-> graph, foreign |-> FALSE]
            /\ resp' = resp
    /\ UNCHANGED reloadVars
    /\ UNCHANGED otherVars

\* POST /urdf/rules/delete { id }: 404 when no node has that @id; else
\* replaceNamedGraph(GID_RULES, compressGraph(next)), whose clear runs first.
RulesDelete(id) ==
    /\ nhttp < MaxHttp
    /\ http.pc = "idle"
    /\ nhttp' = nhttp + 1
    /\ LET graph == store[GID_RULES]
           next  == { n \in graph : n.s # id } IN
       IF next = graph
       THEN /\ resp' = Respond("rulesDelete", 404, GID_RULES)
            /\ UNCHANGED << store, cyc, http >>
       ELSE /\ store' = Clear(store, GID_RULES)
            /\ cyc' = NoteForeign(cyc, 0, GID_RULES)
            /\ http' = [pc |-> "rulesDelete", gid |-> GID_RULES, rest |-> {},
                        data |-> compressGraph(next),
                        prior |-> graph, foreign |-> FALSE]
            /\ resp' = resp
    /\ UNCHANGED reloadVars
    /\ UNCHANGED otherVars

\* The pending urdf.load of loadFile or of replaceNamedGraph completes or
\* throws; the handler answers 200 or, from its catch, 500.
HttpLoad ==
    /\ http.pc # "idle"
    /\ \E loaded \in BOOLEAN :
         /\ store' = IF loaded
                     THEN [g \in Gids |->
                             Load(store, http.gid, http.data)[g]
                               \cup UNION { r.graph : r \in { x \in http.rest : x.id = g } }]
                     ELSE store
         /\ cyc' = IF loaded THEN NoteForeign(cyc, 0, http.gid) ELSE cyc
         /\ resp' = [Respond(http.pc, IF loaded THEN 200 ELSE 500, http.gid) EXCEPT
                       !.prior = http.prior, !.data = http.data,
                       !.after = store'[http.gid], !.foreign = http.foreign]
    /\ http' = NoRequest
    /\ UNCHANGED << reloadVars, nhttp >>
    /\ UNCHANGED otherVars

HttpStep ==
    \/ \E gid \in {GID_INFERRED, GID_OTHER} : GetGraph(gid)
    \/ GetNode(nodeId("n1"), GID_APP)
    \/ \E gid \in {GID_INFERRED, GID_APP} : PostClear(gid)
    \/ \E body \in Docs : PostLoad(body)
    \/ \E doc \in Docs : PostLoadFile(doc)
    \/ \E rule \in NewRules : RulesCreate(rule)
    \/ \E id \in { z(RuleIds[1]), RuleIds[2] } : RulesDelete(id)
    \/ HttpLoad

CycleStep(c) ==
    \/ FetchFlows(c)
    \/ ClearApp(c)
    \/ LoadApp(c)
    \/ RunRule(c)
    \/ ClearInf(c)
    \/ LoadInf(c)
    \/ ClearInfEmpty(c)

----------------------------------------------------------------------------

\* The runtime with its admin HTTP surface; time at the granularity of the
\* debounce window.
Next ==
    \/ FlowEvent
    \/ Elapse
    \/ TimerFire
    \/ \E c \in Cycles : CycleStep(c)
    \/ HttpStep

Spec == Init /\ [][Next]_vars

\* The same runtime under each state of the editor channel.
InitComms ==
    /\ boot \in { [Booted EXCEPT !.comms = mode] : mode \in CommsModes }
    /\ InitRuntime
    /\ dataset = {}
    /\ query = NoQuery
    /\ answer = NoAnswer
    /\ roundTrip = NoRoundTrip
    /\ word = NoWord
    /\ crud = << >>

SpecComms == InitComms /\ [][Next]_vars

\* The reload path alone, with the clock at the granularity TickMs.
NextDebounce ==
    \/ FlowEvent
    \/ Tick
    \/ TimerFire
    \/ \E c \in Cycles : CycleStep(c)

SpecDebounce == Init /\ [][NextDebounce]_vars

\* The reload path over rules graphs with SPARQL and N3 rules, with and
\* without the reasoner (eyeling) at hand.
InitInference ==
    /\ boot \in { [Booted EXCEPT !.eyeling = e] : e \in BOOLEAN }
    /\ store \in { [g \in Gids |-> IF g = GID_RULES THEN r ELSE {}] :
                     r \in { {},
                             RuleNode(RuleIds[1], N3(Q_APP)),
                             RuleNode(RuleIds[1], N3(Q_APP)) \cup RuleNode(RuleIds[2], Q_APP),
                             RuleNode(RuleIds[1], N3(Q_BAD)) \cup RuleNode(RuleIds[2], Q_APP),
                             RuleNode(RuleIds[1], Q_PV) \cup RuleNode(RuleIds[2], N3(Q_APP)),
                             RuleNode(RuleIds[1], Q_BAD) \cup RuleNode(RuleIds[2], Q_APP),
                             RuleNode(RuleIds[1], Q_APP) \cup RuleNode(RuleIds[2], Q_INF) } }
    /\ now = 0
    /\ appReloadTimer = NoTimer
    /\ flowsCfg \in FlowConfigs
    /\ cyc = [c \in Cycles |-> IdleCycle]
    /\ ncyc = 0
    /\ evTimes = << >>
    /\ http = NoRequest
    /\ nhttp = 0
    /\ resp = NoResponse
    /\ dataset = {}
    /\ query = NoQuery
    /\ answer = NoAnswer
    /\ roundTrip = NoRoundTrip
    /\ word = NoWord
    /\ crud = << >>

SpecInference == InitInference /\ [][NextDebounce]_vars

----------------------------------------------------------------------------
(* Querying a compressed dataset: POST /urdf/query                         *)

\* Text.  A string of the universe is a single word or a phrase: words
\* joined by one space.
PhraseWords == {"see", "z:1", "z:7"}
Phrases == { <<a, b>> : a \in PhraseWords, b \in PhraseWords }

TextOf(ws) == IF Len(ws) = 1 THEN ws[1] ELSE ws[1] \o " " \o ws[2]

WordsOf(str) == IF \E ws \in Phrases : TextOf(ws) = str
                THEN CHOOSE ws \in Phrases : TextOf(ws) = str
                ELSE << str >>

\* expandCompressedInString(s): every z:<n> standing between word
\* boundaries is replaced by the IRI at that index, wherever it stands.
expandCompressedInString(str) ==
    LET ws == WordsOf(str)
    IN  TextOf([i \in 1..Len(ws) |-> expandZToken(ws[i])])

NamedNode(v) == [termType |-> "NamedNode", value |-> v]
Literal(v)   == [termType |-> "Literal", value |-> v]
Unbound      == [termType |-> "", value |-> ""]

\* expandCompressedQueryDeep on one term: a NamedNode that is exactly a
\* token becomes the IRI, any other NamedNode has its value expanded as a
\* string; every other object has each of its string fields expanded.
expandTermDeep(t) ==
    IF t.termType = "NamedNode"
    THEN IF expandZToken(t.value) # t.value
         THEN NamedNode(expandZToken(t.value))
         ELSE [t EXCEPT !.value = expandCompressedInString(t.value)]
    ELSE [termType |-> expandCompressedInString(t.termType),
          value    |-> expandCompressedInString(t.value)]

expandCompressedQueryDeep(x) ==
    { [s |-> expandTermDeep(b.s), p |-> expandTermDeep(b.p), o |-> expandTermDeep(b.o)] :
        b \in x }

\* A query SELECT * WHERE { s p o }: each position a variable, an IRI
\* reference <...>, a literal, or (after rewriting) the keyword a.
Var(name)  == [k |-> "var", v |-> name]
IriRef(v)  == [k |-> "iri", v |-> v]
LitTerm(v) == [k |-> "lit", v |-> v]
KeywordA   == [k |-> "a", v |-> "a"]

\* zIndexByIri of rewriteQuery: set() for every index, the last one stays
MaxIndexOf(iri) == CHOOSE i \in 1..Len(ZURL) :
                      /\ ZURL[i] = iri
                      /\ \A j \in 1..Len(ZURL) : ZURL[j] = iri => j <= i

\* The lookahead (?=(?:[^()]*\([^()]*\))*[^()]*$) on the text after an
\* occurrence: up to the end of the text the parentheses open and close
\* without nesting, none closing before it opened.
outsideCall(rest) ==
    LET depth(i) == Cardinality({ j \in 1..i : rest[j].v = "(" })
                      - Cardinality({ j \in 1..i : rest[j].v = ")" })
    IN  /\ \A i \in 0..Len(rest) : depth(i) \in {0, 1}
        /\ depth(Len(rest)) = 0

\* rewriteQuery on one reference, rest the text after it: <iri> becomes
\* <z:idx> when the dictionary has the IRI, and then <z:0> becomes a when
\* the lookahead holds.
rewriteTerm(t, rest) ==
    LET t1 == IF t.k = "iri" /\ \E i \in 1..Len(ZURL) : ZURL[i] = t.v
              THEN IriRef(ZTok(MaxIndexOf(t.v) - 1))
              ELSE t
    IN  IF t1 = IriRef(ZTok(0)) /\ outsideCall(rest) THEN KeywordA ELSE t1

\* The text of a query is SELECT * WHERE { s p o filter }: the filter
\* holds the only parentheses of it.
rewriteQuery(sparql) ==
    [sparql EXCEPT !.s = rewriteTerm(sparql.s, sparql.filter),
                   !.p = rewriteTerm(sparql.p, sparql.filter),
                   !.o = rewriteTerm(sparql.o, sparql.filter),
                   !.filter = [i \in DOMAIN sparql.filter |->
                                 rewriteTerm(sparql.filter[i],
                                             SubSeq(sparql.filter, i + 1, Len(sparql.filter)))]]

\* urdf.query.  The keyword a is a predicate only: elsewhere the text does
\* not parse and the call rejects; so does text after the closing brace.
QueryRejects(q) == q.s.k = "a" \/ q.o.k = "a" \/ q.post # << >>

\* The text of a query, as its runs of non-blank characters; a run is the
\* sequence of the lexical tokens written in it without a blank between
\* them.  pre and post are the runs before SELECT and after the pattern.
QueryText(q) ==
    q.pre \o << <<"SELECT">>, <<"*">>, <<"WHERE">>, <<"{", "}">> >> \o q.post

\* String.prototype.toLowerCase on the tokens used here.
Lower(w) ==
    CASE w \in {"PREFIX", "prefix"}      -> "prefix"
      [] w \in {"BASE", "Base", "base"}  -> "base"
      [] w = "SELECT"                    -> "select"
      [] w = "WHERE"                     -> "where"
      [] OTHER                           -> w

\* /(^|\s)(prefix|base)\s+/i.test(sparql): a run that is the keyword alone
\* and has a blank after it, so is not the end of the text.
PrefixOrBaseTest(text) ==
    \E i \in 1..(Len(text) - 1) :
        Len(text[i]) = 1 /\ Lower(text[i][1]) \in {"prefix", "base"}

ObjectTerm(o) == IF o.k = "id" THEN NamedNode(o.v) ELSE Literal(o.v)

\* The key @type is the predicate rdf:type.
PredicateTerm(key) == IF key = "@type" THEN NamedNode(RDF_TYPE) ELSE NamedNode(key)

MatchTerm(pat, t) ==
    \/ pat.k = "var"
    \/ pat.k = "iri" /\ t = NamedNode(pat.v)
    \/ pat.k = "lit" /\ t = Literal(pat.v)

MatchPredicate(pat, key) ==
    \/ pat.k = "var"
    \/ pat.k = "a" /\ key = "@type"
    \/ pat.k = "iri" /\ PredicateTerm(key) = NamedNode(pat.v)

BindTerm(pat, t) == IF pat.k = "var" THEN t ELSE Unbound

QueryResults(q, graph) ==
    { [s |-> BindTerm(q.s, NamedNode(e.s)),
       p |-> BindTerm(q.p, PredicateTerm(e.p)),
       o |-> BindTerm(q.o, ObjectTerm(e.o))] :
        e \in { x \in graph : /\ MatchTerm(q.s, NamedNode(x.s))
                              /\ MatchPredicate(q.p, x.p)
                              /\ MatchTerm(q.o, ObjectTerm(x.o)) } }

\* Datasets with dictionary IRIs only as predicates and types.
Subjects == {"urn:x", NRUA_NODE}
LiteralTexts == {"N", "z:1", "z:7", "see z:1"}
ObjectIris == {"urn:x", NRUA_NODE, RDF_TYPE}

Triples ==
    { Entry(sub, "@type", IdObj(t)) : sub \in Subjects, t \in {NRUA_NODE, URN_DERIVED} }
    \cup { Entry(sub, pr, IdObj(ob)) :
             sub \in Subjects, pr \in {SCHEMA_TEXT, URN_DERIVED}, ob \in ObjectIris }
    \cup { Entry(sub, pr, LitObj(tx)) :
             sub \in Subjects, pr \in {SCHEMA_TEXT, URN_DERIVED}, tx \in LiteralTexts }
    \cup { ScalarEntry(sub, SCHEMA_TEXT, LitObj(tx)) :
             sub \in Subjects, tx \in {"N", "z:1"} }

\* A key of a node object has one value: a scalar, or an array.
OneValuePerKey(d) ==
    \A e1 \in d : \A e2 \in d :
        (e1.s = e2.s /\ e1.p = e2.p /\ e1 # e2) => (e1.arr /\ e2.arr)

RECURSIVE DatasetsUpTo(_)
DatasetsUpTo(n) ==
    IF n = 0 THEN { {} }
    ELSE DatasetsUpTo(n - 1) \cup { d \cup {t} : d \in DatasetsUpTo(n - 1), t \in Triples }

Datasets == { d \in DatasetsUpTo(MaxTriples) : d # {} /\ OneValuePerKey(d) }

\* Queries without PREFIX and BASE.
Prologues ==
    { << >>,
      << <<"PREFIX">>, <<"ex:">>, <<"<urn:e>">> >>,
      << <<"prefix">>, <<"ex:">>, <<"<urn:e>">> >>,
      << <<"Base">>, <<"<urn:b>">> >>,
      << <<"BASE", "<urn:b>">> >> }

Queries ==
    { [s |-> ps, p |-> pp, o |-> po, pre |-> << >>, post |-> << >>, filter |-> << >>] :
        ps \in {Var("s"), IriRef("urn:x"), IriRef(NRUA_NODE)},
        pp \in {Var("p"), IriRef(RDF_TYPE), IriRef(SCHEMA_TEXT), IriRef(URN_DERIVED)},
        po \in {Var("o"), IriRef(NRUA_NODE), IriRef(RDF_TYPE), IriRef("urn:x"),
                LitTerm("z:1"), LitTerm("N")} }
    \cup { [NoQuery EXCEPT !.pre = pre, !.post = post] :
             pre \in Prologues, post \in { << >>, << <<"base">> >> } }

InitQuery ==
    /\ boot = Booted
    /\ store = [g \in Gids |-> {}]
    /\ now = 0
    /\ appReloadTimer = NoTimer
    /\ flowsCfg = {"n1"}
    /\ cyc = [c \in Cycles |-> IdleCycle]
    /\ ncyc = 0
    /\ evTimes = << >>
    /\ http = NoRequest
    /\ nhttp = 0
    /\ resp = NoResponse
    /\ dataset \in Datasets
    /\ query \in Queries
    /\ answer = NoAnswer
    /\ roundTrip = NoRoundTrip
    /\ word = NoWord
    /\ crud = << >>

\* The query evaluated over the dataset as it is.
EvaluateOriginal ==
    /\ ~answer.direct.done
    /\ answer' = [answer EXCEPT !.direct =
                    IF QueryRejects(query)
                    THEN [done |-> TRUE, ok |-> FALSE, status |-> 500, results |-> {}]
                    ELSE [done |-> TRUE, ok |-> TRUE, status |-> 200,
                          results |-> QueryResults(query, dataset)]]
    /\ UNCHANGED << runtimeVars, dataset, query, roundTrip, word, boot, crud >>

\* POST /urdf/query over the dataset as it is stored: the query rewritten,
\* evaluated over the compressed dataset, the bindings expanded.
PostQuery ==
    /\ ~answer.served.done
    /\ LET rewrittenSparql == rewriteQuery(query)
       IN  answer' = [answer EXCEPT !.served =
                        IF PrefixOrBaseTest(QueryText(query))
                        THEN [done |-> TRUE, ok |-> FALSE, status |-> 400, results |-> {}]
                        ELSE IF QueryRejects(rewrittenSparql)
                        THEN [done |-> TRUE, ok |-> FALSE, status |-> 500, results |-> {}]
                        ELSE [done |-> TRUE, ok |-> TRUE, status |-> 200,
                              results |-> expandCompressedQueryDeep(
                                  QueryResults(rewrittenSparql, compressGraph(dataset)))]]
    /\ UNCHANGED << runtimeVars, dataset, query, roundTrip, word, boot, crud >>

\* expandCompressedGraphDeep(compressGraph(flattenJsonLd(dataset)))
RoundTrip ==
    /\ ~roundTrip.done
    /\ roundTrip' = [done  |-> TRUE,
                     graph |-> expandCompressedGraphDeep(
                                  compressGraph(flattenJsonLd(dataset)))]
    /\ UNCHANGED << runtimeVars, queryVars, word, boot, crud >>

NextQuery == EvaluateOriginal \/ PostQuery \/ RoundTrip

SpecQuery == InitQuery /\ [][NextQuery]_vars

\* Querying with the dictionary as loaded from the deployed file, from an
\* array that names one IRI twice, from an array with an item that is not
\* a string (the number 5), and from a file that is not an array.
InitZurl ==
    /\ boot \in { [Booted EXCEPT !.file = f, !.zurl = loadZurlJsonOnStartup(f)] :
                    f \in { zurlJson,
                            [array |-> TRUE,
                             items |-> << RDF_TYPE, SCHEMA_TEXT, URN_DERIVED, NRUA_NODE,
                                          SCHEMA_TEXT >>],
                            [array |-> TRUE,
                             items |-> << RDF_TYPE, "5", URN_DERIVED, NRUA_NODE >>],
                            [array |-> FALSE, items |-> << >>] } }
    /\ store = [g \in Gids |-> {}]
    /\ now = 0
    /\ appReloadTimer = NoTimer
    /\ flowsCfg = {"n1"}
    /\ cyc = [c \in Cycles |-> IdleCycle]
    /\ ncyc = 0
    /\ evTimes = << >>
    /\ http = NoRequest
    /\ nhttp = 0
    /\ resp = NoResponse
    /\ dataset \in { {Entry("urn:x", pr, IdObj(ob))} :
                       pr \in {SCHEMA_TEXT, URN_DERIVED}, ob \in {NRUA_NODE, "urn:x"} }
    /\ query \in { [NoQuery EXCEPT !.p = pp, !.o = po] :
                     pp \in {Var("p"), IriRef(SCHEMA_TEXT), IriRef(URN_DERIVED)},
                     po \in {Var("o"), IriRef(NRUA_NODE)} }
    /\ answer = NoAnswer
    /\ roundTrip = NoRoundTrip
    /\ word = NoWord
    /\ crud = << >>

SpecZurl == InitZurl /\ [][NextQuery]_vars

\* rewriteQuery applied to queries with a FILTER after the triple pattern:
\* none, a comparison, a call, calls nested in calls, with and without
\* the index-0 IRI inside.
InitRewrite ==
    /\ boot = Booted
    /\ store = [g \in Gids |-> {}]
    /\ now = 0
    /\ appReloadTimer = NoTimer
    /\ flowsCfg = {"n1"}
    /\ cyc = [c \in Cycles |-> IdleCycle]
    /\ ncyc = 0
    /\ evTimes = << >>
    /\ http = NoRequest
    /\ nhttp = 0
    /\ resp = NoResponse
    /\ dataset = {}
    /\ query \in
         LET W(v) == [k |-> "word", v |-> v]
             T    == IriRef(RDF_TYPE)
         IN  { [NoQuery EXCEPT !.s = ps, !.p = pp, !.o = po, !.filter = f] :
                 ps \in {Var("s"), T, IriRef("urn:x")},
                 pp \in {Var("p"), T, IriRef(SCHEMA_TEXT)},
                 po \in {Var("o"), T},
                 f  \in { << >>,
                          << W("FILTER"), W("("), Var("o"), W("!="), T, W(")") >>,
                          << W("FILTER"), W("("), W("isIRI"), W("("), Var("o"), W(")"), W(")") >>,
                          << W("FILTER"), W("("), W("sameTerm"), W("("), Var("o"), T,
                             W(")"), W(")") >>,
                          << W("FILTER"), W("("), W("isIRI"), W("("), Var("o"), W(")"), W(")"),
                             W("FILTER"), W("("), Var("s"), W("!="), T, W(")") >>,
                          << W("FILTER"), W("("), W("!"), W("("), W("sameTerm"), W("("),
                             Var("o"), T, W(")"), W(")"), W(")") >> } }
    /\ answer = NoAnswer
    /\ roundTrip = NoRoundTrip
    /\ word = NoWord
    /\ crud = << >>

\* let rewrittenSparql = rewriteQuery(sparql): word keeps the query as
\* submitted and as rewritten.
ApplyRewriteQuery ==
    /\ word.ops = << >>
    /\ word' = [src |-> query, cur |-> rewriteQuery(query), ops |-> << "rewriteQuery" >>]
    /\ UNCHANGED << runtimeVars, queryVars, roundTrip, boot, crud >>

SpecRewrite == InitRewrite /\ [][ApplyRewriteQuery]_vars

\* flattenJsonLd applied to graph arrays with embedded nodes: a typed top
\* node, and a node (with or without an @id) that embeds one or two
\* nodes, at most one of them without an @id.
InitFlatten ==
    /\ boot = Booted
    /\ store = [g \in Gids |-> {}]
    /\ now = 0
    /\ appReloadTimer = NoTimer
    /\ flowsCfg = {"n1"}
    /\ cyc = [c \in Cycles |-> IdleCycle]
    /\ ncyc = 0
    /\ evTimes = << >>
    /\ http = NoRequest
    /\ nhttp = 0
    /\ resp = NoResponse
    /\ dataset \in
         { { Entry(s1, "@type", IdObj(NRUA_NODE)), Entry(s2, "urn:p", NodeObj(v1, "urn:T")) }
             \cup { Entry(s2, "urn:p", NodeObj(v2, "urn:U")) : v2 \in more } :
             s1 \in {"urn:a", "_:b0", ""},
             s2 \in {"urn:a", "urn:c", ""},
             v1 \in {"", "_:b0", "urn:k"},
             more \in { {}, {"_:b0"}, {"_:b1"}, {"urn:a"} } }
    /\ query = NoQuery
    /\ answer = NoAnswer
    /\ roundTrip = NoRoundTrip
    /\ word = NoWord
    /\ crud = << >>

SpecFlatten == InitFlatten /\ [][RoundTrip]_vars

----------------------------------------------------------------------------
(* The execution path of a rule.  The values of the two slots are strings, *)
(* written here as sequences of characters so that trimming, lower-casing  *)
(* and the substring test are computed as String.prototype does.           *)

\* getPropFirstValue(node, iri) of a slot the node does not have
undefined == << "undefined value" >>

UpperCase == << "A", "B", "C", "D", "E", "F", "G", "H", "I", "J", "K", "L", "M", "N", "O", "P", "Q", "R", "S", "T", "U", "V", "W", "X", "Y", "Z" >>
LowerCase == << "a", "b", "c", "d", "e", "f", "g", "h", "i", "j", "k", "l", "m", "n", "o", "p", "q", "r", "s", "t", "u", "v", "w", "x", "y", "z" >>

toLowerCase(s) ==
    [i \in DOMAIN s |->
        IF \E k \in DOMAIN UpperCase : UpperCase[k] = s[i]
        THEN LowerCase[CHOOSE k \in DOMAIN UpperCase : UpperCase[k] = s[i]]
        ELSE s[i]]

RECURSIVE trim(_)
trim(s) ==
    IF s = << >> THEN s
    ELSE IF Head(s) = " " THEN trim(Tail(s))
    ELSE IF s[Len(s)] = " " THEN trim(SubSeq(s, 1, Len(s) - 1))
    ELSE s

\* String.prototype.includes
includes(s, sub) ==
    \E i \in 1..(Len(s) - Len(sub) + 1) : SubSeq(s, i, i + Len(sub) - 1) = sub

\* normalizeLang(x): "" for a missing or empty value, else trimmed and
\* lower-cased
normalizeLang(x) ==
    IF x = undefined \/ x = << >> THEN << >> ELSE toLowerCase(trim(x))

\* The test of isN3Rule on the values of the rule's programmingLanguage
\* and encodingFormat slots.
isN3RuleSlots(programmingLanguage, encodingFormat) ==
    LET lang == normalizeLang(programmingLanguage)
        fmt  == normalizeLang(encodingFormat)
        n3        == << "n", "3" >>
        notation3 == << "n", "o", "t", "a", "t", "i", "o", "n", "3" >>
    IN  \/ lang = n3
        \/ lang = notation3
        \/ includes(lang, n3)
        \/ includes(fmt, n3)
        \/ includes(fmt, notation3)

LangSparql == << "s", "p", "a", "r", "q", "l" >>

ProgrammingLanguages ==
    { undefined,
      << "s", "p", "a", "r", "q", "l" >>,
      << "S", "P", "A", "R", "Q", "L" >>,
      << "n", "3" >>,
      << " ", "N", "3", " " >>,
      << "n", "o", "t", "a", "t", "i", "o", "n", "3" >>,
      << "N", "o", "t", "a", "t", "i", "o", "n", "3" >>,
      << "j", "a", "v", "a", "s", "c", "r", "i", "p", "t" >>,
      <<  >> }

EncodingFormats ==
    { undefined,
      << "t", "e", "x", "t", "/", "n", "3" >>,
      << "T", "E", "X", "T", "/", "N", "3" >>,
      << "t", "e", "x", "t", "/", "t", "u", "r", "t", "l", "e" >>,
      << "a", "p", "p", "l", "i", "c", "a", "t", "i", "o", "n", "/", "s", "p", "a", "r", "q", "l", "-", "q", "u", "e", "r", "y" >>,
      << "t", "e", "x", "t", "/", "n", "o", "t", "a", "t", "i", "o", "n", "3" >>,
      << " ", "t", "e", "x", "t", "/", "n", "3", " " >> }

\* A rule with a program text, its two slots present or not, about to be
\* run by the rules loop.
InitLang ==
    /\ boot = Booted
    /\ store = [g \in Gids |-> {}]
    /\ now = 0
    /\ appReloadTimer = NoTimer
    /\ flowsCfg = {"n1"}
    /\ cyc = [c \in Cycles |-> IdleCycle]
    /\ ncyc = 0
    /\ evTimes = << >>
    /\ http = NoRequest
    /\ nhttp = 0
    /\ resp = NoResponse
    /\ dataset = {}
    /\ query = NoQuery
    /\ answer = NoAnswer
    /\ roundTrip = NoRoundTrip
    /\ word \in { [src |-> [programmingLanguage |-> l, encodingFormat |-> f],
                   cur |-> "", ops |-> << >>] :
                    l \in ProgrammingLanguages, f \in EncodingFormats }
    /\ crud = << >>

\* if (isN3Rule(rule)) ... else ...: word keeps the path the loop takes
\* for the rule.
SelectPath ==
    /\ word.ops = << >>
    /\ word' = [word EXCEPT
                  !.cur = IF isN3RuleSlots(word.src.programmingLanguage, word.src.encodingFormat)
                          THEN "n3" ELSE "sparql",
                  !.ops = << "isN3Rule" >>]
    /\ UNCHANGED << runtimeVars, queryVars, roundTrip, boot, crud >>

SpecLang == InitLang /\ [][SelectPath]_vars

----------------------------------------------------------------------------
(* The flow -> graph translator with the properties and the wires of the   *)
(* nodes.  Ids and keys are sequences of characters, so that makeId is     *)
(* computed character by character; asString(s) is the string of a         *)
(* sequence.                                                               *)

RECURSIVE asString(_)
asString(s) == IF s = << >> THEN "" ELSE Head(s) \o asString(Tail(s))

Digit == << "0", "1", "2", "3", "4", "5", "6", "7", "8", "9" >>

\* String(n) of a number below 100
String(n) == IF n < 10 THEN << Digit[n + 1] >>
             ELSE << Digit[(n \div 10) + 1], Digit[(n % 10) + 1] >>

flowId(tabId) == "urn:nrua:f" \o tabId

outId(id, gate) == "urn:nrua:o" \o asString(id) \o asString(String(gate))

K_id       == << "i", "d" >>
K_type     == << "t", "y", "p", "e" >>
K_z        == << "z" >>
K_x        == << "x" >>
K_y        == << "y" >>
K_wires    == << "w", "i", "r", "e", "s" >>
K_info     == << "i", "n", "f", "o" >>
K_d        == << "d" >>
K_g        == << "g" >>
K_name     == << "n", "a", "m", "e" >>
K_label    == << "l", "a", "b", "e", "l" >>
K_disabled == << "d", "i", "s", "a", "b", "l", "e", "d" >>
K_env      == << "e", "n", "v" >>

\* The set without the key info.
EXCLUDE_NODE_KEYS_NoInfo == { K_id, K_type, K_z, K_x, K_y, K_wires, K_d, K_g }

EXCLUDE_NODE_KEYS == { K_id, K_type, K_z, K_x, K_y, K_wires, K_info, K_d, K_g }

\* Values of a configuration key: a primitive, an array, an object.
Prim(v)     == [k |-> "prim", v |-> v]
Arr(items)  == [k |-> "arr", items |-> items]
Obj(fields) == [k |-> "obj", fields |-> fields]

isPrimitive(v) == v.k = "prim"

\* Characters encodeURIComponent leaves as they are.
Unreserved ==
    { UpperCase[i] : i \in DOMAIN UpperCase } \cup { LowerCase[i] : i \in DOMAIN LowerCase }
    \cup { Digit[i] : i \in DOMAIN Digit }
    \cup { "-", "_", ".", "!", "~", "*", "'", "(", ")" }

\* The escape of the other characters of the model's alphabet.
PercentCode(c) ==
    CASE c = " " -> << "%", "2", "0" >>
      [] c = "$" -> << "%", "2", "4" >>
      [] c = "%" -> << "%", "2", "5" >>
      [] c = "/" -> << "%", "2", "F" >>
      [] c = ":" -> << "%", "3", "A" >>

RECURSIVE encodeURIComponent(_)
encodeURIComponent(s) ==
    IF s = << >> THEN << >>
    ELSE (IF Head(s) \in Unreserved THEN << Head(s) >> ELSE PercentCode(Head(s)))
         \o encodeURIComponent(Tail(s))

\* makeId(...parts): each part escaped, % replaced by _, joined by ":"
RECURSIVE makeId(_)
makeId(parts) ==
    LET enc(s) == [i \in DOMAIN encodeURIComponent(s) |->
                     IF encodeURIComponent(s)[i] = "%" THEN "_" ELSE encodeURIComponent(s)[i]]
    IN  IF Len(parts) = 1 THEN enc(parts[1])
        ELSE enc(Head(parts)) \o << ":" >> \o makeId(Tail(parts))

\* The @id encodeStructuredValue returns for a value under idBase.
structuredId(value, idBase) ==
    makeId(<< idBase, IF value.k = "arr" THEN << "l", "i", "s", "t" >> ELSE << "o", "b", "j" >> >>)

\* encodeStructuredValue(graph, value, idBase): the entries pushed.
RECURSIVE encodeStructuredValue(_, _)
encodeStructuredValue(value, idBase) ==
    IF value.k = "arr"
    THEN LET listId == makeId(<< idBase, << "l", "i", "s", "t" >> >>)
             liId(idx) == makeId(<< listId, << "l", "i" >>, String(idx) >>)
             li(idx) ==
                LET item == value.items[idx + 1] IN
                { Entry(asString(liId(idx)), "@type", IdObj(z("https://schema.org/ListItem"))),
                  Entry(asString(liId(idx)), z("https://schema.org/position"), LitObj(asString(String(idx)))),
                  Entry(asString(listId), z("https://schema.org/itemListElement"), IdObj(asString(liId(idx)))) }
                \cup
                IF isPrimitive(item)
                THEN { Entry(asString(liId(idx)), z("https://schema.org/item"), LitObj(item.v)) }
                ELSE { Entry(asString(liId(idx)), z("https://schema.org/item"),
                             IdObj(asString(structuredId(item, makeId(<< liId(idx), << "i", "t", "e", "m" >> >>))))) }
                     \cup encodeStructuredValue(item, makeId(<< liId(idx), << "i", "t", "e", "m" >> >>))
         IN  { Entry(asString(listId), "@type", IdObj(z("https://schema.org/ItemList"))) }
             \cup UNION { li(idx) : idx \in 0..(Len(value.items) - 1) }
    ELSE LET objId == makeId(<< idBase, << "o", "b", "j" >> >>)
             pvId(key) == makeId(<< objId, << "p", "v" >>, key >>)
             pv(key) ==
                LET v == value.fields[key] IN
                { Entry(asString(pvId(key)), "@type", IdObj(z("https://schema.org/PropertyValue"))),
                  Entry(asString(pvId(key)), z("https://schema.org/name"), LitObj(asString(key))),
                  Entry(asString(objId), z("https://schema.org/additionalProperty"), IdObj(asString(pvId(key)))) }
                \cup
                IF isPrimitive(v)
                THEN { Entry(asString(pvId(key)), z("https://schema.org/value"), LitObj(v.v)) }
                ELSE { Entry(asString(pvId(key)), z("https://schema.org/valueReference"),
                             IdObj(asString(structuredId(v, makeId(<< objId, << "v" >>, key >>))))) }
                     \cup encodeStructuredValue(v, makeId(<< objId, << "v" >>, key >>))
         IN  { Entry(asString(objId), "@type", IdObj(z("https://schema.org/StructuredValue"))) }
             \cup UNION { pv(key) : key \in DOMAIN value.fields }

\* addPropertyValue(graph, subjectId, key, value, baseId): the
\* PropertyValue, what its value needs, and the link from the subject.
addPropertyValue(subjectId, key, value, baseId) ==
    LET pvId == makeId(<< baseId, << "p", "v" >>, key >>) IN
    { Entry(asString(pvId), "@type", IdObj(z("https://schema.org/PropertyValue"))),
      Entry(asString(pvId), z("https://schema.org/name"), LitObj(asString(key))),
      Entry(subjectId, z("https://schema.org/additionalProperty"), IdObj(asString(pvId))) }
    \cup
    IF isPrimitive(value)
    THEN { Entry(asString(pvId), z("https://schema.org/value"), LitObj(value.v)) }
    ELSE { Entry(asString(pvId), z("https://schema.org/valueReference"),
                 IdObj(asString(structuredId(value, makeId(<< baseId, << "v" >>, key >>))))) }
         \cup encodeStructuredValue(value, makeId(<< baseId, << "v" >>, key >>))

NRUA == "https://w3id.org/nodered-ontology-based-program-analysis/nodered-user-application-ontology#"

\* An entry of the flows array: id, type, z ("" when it has none), wires
\* (one sequence of target ids per gate) and its other keys with their
\* values.
FlowEntry(id, type, zz, wires, own) ==
    [id |-> id, type |-> type, z |-> zz, wires |-> wires, own |-> own]

\* The value of a string-valued key such as name or label, "" when the
\* entry has no such key.
StringOf(n, key) == IF key \in DOMAIN n.own /\ isPrimitive(n.own[key]) THEN n.own[key].v ELSE ""

\* The node types a keyword list can hold, sorted.
NodeTypes == << "debug", "inject" >>

\* Array.from(set).sort().join(",")
RECURSIVE sortJoin(_, _)
sortJoin(set, i) ==
    IF i > Len(NodeTypes) THEN ""
    ELSE LET rest == sortJoin(set, i + 1) IN
         IF NodeTypes[i] \notin set THEN rest
         ELSE IF rest = "" THEN NodeTypes[i] ELSE NodeTypes[i] \o "," \o rest

\* buildAppJsonLdFromFlows(flowsArray) on entries with keys and wires: the
\* @graph it returns.
translateFlows(flowsArray) ==
    LET all   == { flowsArray[i] : i \in DOMAIN flowsArray }
        tabs  == { n \in all : n.type = "tab" }
        nodes == { n \in all : n.id # << >> /\ n.type # "" /\ n.type # "tab" }
        flow(t) ==
            LET fid == flowId(asString(t.id))
                kws == { n.type : n \in { m \in nodes : m.z # "" /\ flowId(m.z) = fid } }
            IN  { Entry(fid, "@type", IdObj(z(NRUA \o "Flow"))),
                  Entry(fid, z("https://schema.org/identifier"), LitObj(asString(t.id))),
                  Entry(fid, z(NRUA \o "isPartOfApp"), IdObj(appId)) }
                \cup (IF StringOf(t, K_label) # ""
                      THEN { Entry(fid, z("https://schema.org/name"), LitObj(StringOf(t, K_label))) }
                      ELSE {})
                \cup (IF kws # {}
                      THEN { Entry(fid, z("https://schema.org/keywords"), LitObj(sortJoin(kws, 1))) }
                      ELSE {})
        node(n) ==
            LET thisNodeId == nodeId(asString(n.id))
                baseId     == << "u", "r", "n", ":", "n", "r", "u", "a", ":", "n" >> \o n.id
                keys       == { K_id, K_type, K_wires } \cup (IF n.z # "" THEN { K_z } ELSE {})
                              \cup DOMAIN n.own
                kept       == { k \in keys : /\ k \notin EXCLUDE_NODE_KEYS
                                              /\ k # K_name
                                              /\ k \notin { K_label, K_disabled, K_env } }
                gates      == { g \in 0..(Len(n.wires) - 1) : n.wires[g + 1] # << >> }
                output(g)  ==
                    { Entry(outId(n.id, g), "@type", IdObj(z(NRUA \o "NodeOutput"))),
                      Entry(outId(n.id, g), z(NRUA \o "fromGate"), LitObj(asString(String(g)))),
                      Entry(thisNodeId, z(NRUA \o "hasOutput"), IdObj(outId(n.id, g))) }
                    \cup { Entry(outId(n.id, g), z(NRUA \o "toNode"),
                                 IdObj(nodeId(asString(n.wires[g + 1][j])))) :
                             j \in DOMAIN n.wires[g + 1] }
            IN  { Entry(thisNodeId, "@type", IdObj(z(NRUA_NODE))),
                  Entry(thisNodeId, z("https://schema.org/identifier"), LitObj(asString(n.id))),
                  Entry(thisNodeId, z(NRUA \o "type"), LitObj(n.type)),
                  Entry(thisNodeId,
                        z(NRUA \o (IF n.z # "" THEN "isPartOfFlow" ELSE "isPartOfApp")),
                        IdObj(IF n.z # "" THEN flowId(n.z) ELSE appId)) }
                \cup (IF StringOf(n, K_name) # ""
                      THEN { Entry(thisNodeId, z("https://schema.org/name"), LitObj(StringOf(n, K_name))) }
                      ELSE {})
                \cup UNION { addPropertyValue(thisNodeId, k, n.own[k], baseId) : k \in kept }
                \cup UNION { output(g) : g \in gates }
    IN  { Entry(appId, "@type", IdObj(z("https://schema.org/Application"))) }
        \cup UNION { flow(t) : t \in tabs }
        \cup UNION { node(n) : n \in nodes }

\* Flows arrays: with or without a tab, an inject node n1 and a debug node
\* n11 or n2.  n1 has up to eleven gates, some of them without targets;
\* the keys of the nodes are excluded keys, plain keys, keys with a
\* character that makeId escapes, and keys with structured values.
InitTranslate ==
    /\ boot = Booted
    /\ store = [g \in Gids |-> {}]
    /\ now = 0
    /\ appReloadTimer = NoTimer
    /\ flowsCfg = {"n1"}
    /\ cyc = [c \in Cycles |-> IdleCycle]
    /\ ncyc = 0
    /\ evTimes = << >>
    /\ http = NoRequest
    /\ nhttp = 0
    /\ resp = NoResponse
    /\ dataset = {}
    /\ query = NoQuery
    /\ answer = NoAnswer
    /\ roundTrip = NoRoundTrip
    /\ word \in
         LET n1     == << "n", "1" >>
             n11    == << "n", "1", "1" >>
             n2     == << "n", "2" >>
             none   == [k \in {} |-> Prim("")]
             tab    == FlowEntry(<< "t", "1" >>, "tab", "", << >>, (K_label :> Prim("Flow 1")))
             wires1 == { << >>,
                         << << n11 >> >>,
                         << << >>, << n11 >> >>,
                         << << n11, n2 >> >>,
                         [i \in 1..11 |-> IF i = 11 THEN << n2 >> ELSE << >>],
                         [i \in 1..11 |-> IF i = 1 THEN << n11 >>
                                          ELSE IF i = 11 THEN << n2 >> ELSE << >>] }
             own1   == { none,
                         (K_name :> Prim("in")) @@ (K_x :> Prim("10")) @@ (K_y :> Prim("20"))
                            @@ (<< "t", "o", "p", "i", "c" >> :> Prim("t")),
                         (K_info :> Prim("note")) @@ (K_d :> Prim("true")) @@ (K_g :> Prim("grp"))
                            @@ (<< "p", "a", "y", "l", "o", "a", "d" >> :> Obj((K_id :> Prim("1")) @@ (<< "a", " ", "b" >> :> Prim("2"))
                                                   @@ (<< "a", "_", "2", "0", "b" >> :> Prim("3")))),
                         (<< "a", " ", "b" >> :> Prim("1")) @@ (<< "a", "_", "2", "0", "b" >> :> Prim("2")),
                         (K_label :> Prim("l")) @@ (K_disabled :> Prim("false"))
                            @@ (K_env :> Arr(<< >>))
                            @@ (<< "r", "u", "l", "e", "s" >> :> Arr(<< Prim("r"), Arr(<< Prim("s") >>),
                                                  Obj((<< "t" >> :> Prim("eq"))) >>)) }
             own2   == { none, (K_info :> Prim("note")) @@ (<< "a", "c", "t", "i", "v", "e" >> :> Prim("true")) }
         IN  { [src |-> (IF withTab THEN << tab >> ELSE << >>)
                        \o << FlowEntry(n1, "inject", IF withTab THEN "t1" ELSE "", w1, o1),
                              FlowEntry(id2, "debug", IF withTab THEN "t1" ELSE "", w2, o2) >>,
                cur |-> {},
                ops |-> << >>] :
                 withTab \in BOOLEAN, w1 \in wires1, o1 \in own1,
                 id2 \in {n11, n2}, w2 \in { << >>, << << n1 >> >> }, o2 \in own2 }
    /\ crud = << >>

\* const doc = buildAppJsonLdFromFlows(flows): word keeps the flows array
\* and the @graph made from it.
ApplyTranslate ==
    /\ word.ops = << >>
    /\ word' = [word EXCEPT !.cur = translateFlows(word.src),
                            !.ops = << "buildAppJsonLdFromFlows" >>]
    /\ UNCHANGED << runtimeVars, queryVars, roundTrip, boot, crud >>

SpecTranslate == InitTranslate /\ [][ApplyTranslate]_vars

----------------------------------------------------------------------------
(* Properties                                                              *)

Tags(c) == { cyc[c].trace[i] : i \in 1..Len(cyc[c].trace) }

\* Position of the first occurrence of a tag in the trace of cycle c (0: none)
Pos(c, tag) ==
    IF tag \in Tags(c)
    THEN CHOOSE i \in 1..Len(cyc[c].trace) :
            /\ cyc[c].trace[i] = tag
            /\ \A j \in 1..(i - 1) : cyc[c].trace[j] # tag
    ELSE 0

EventTags == {"ev:appLoad:fail", "ev:inference:ok", "ev:inference:fail", "ev:appUpdate:ok"}

\* Events i that closed a debounce window for sure / possibly: the next
\* event (or, for the last one, the present) is more than / at least
\* DEBOUNCE_MS later.
WindowsClosed ==
    { i \in 1..Len(evTimes) :
        IF i < Len(evTimes) THEN evTimes[i + 1] - evTimes[i] > DEBOUNCE_MS
                            ELSE now - evTimes[i] > DEBOUNCE_MS }

WindowsClosing ==
    { i \in 1..Len(evTimes) :
        IF i < Len(evTimes) THEN evTimes[i + 1] - evTimes[i] >= DEBOUNCE_MS
                            ELSE now - evTimes[i] >= DEBOUNCE_MS }

\* C1: flow events are debounced with a 250 ms window: events that each
\* arrive less than 250 ms after the previous one cause exactly one call of
\* loadApplicationFromFlows, and an event arriving after the window has
\* elapsed causes another one.  The number of calls equals the number of
\* events followed by 250 ms of silence (an event exactly 250 ms after the
\* previous one may fall on either side).
C1_DebounceCoalesces ==
    /\ Cardinality(WindowsClosed) <= ncyc
    /\ ncyc <= Cardinality(WindowsClosing)

\* Two events less than 250 ms apart caused one cycle, a third event after
\* the window a second one.
C1_Witness ==
    /\ Len(evTimes) = 3
    /\ evTimes[2] - evTimes[1] < DEBOUNCE_MS
    /\ evTimes[2] > evTimes[1]
    /\ evTimes[3] - evTimes[2] > DEBOUNCE_MS
    /\ now - evTimes[3] >= DEBOUNCE_MS
    /\ ncyc = 2

\* C2: a reader of the inferred graph (GET /urdf/graph) that runs between
\* the awaited steps of recomputeInferencesFromRules sees the complete
\* inferred graph from before the cycle or the complete fresh one, never an
\* empty or partly loaded graph.
C2_ReaderSeesCompleteInferredGraph ==
    (resp.op = "graph" /\ resp.gid = GID_INFERRED /\ resp.mid # {})
        => resp.graph \in resp.complete

\* C3: when the load of a clear-then-load replace fails, the graph is left
\* in its state before the operation or in its complete new state, and the
\* failure is reported with ok:false (inferred graph, application graph,
\* replaceNamedGraph of the rules graph, POST /urdf/loadFile).
C3_NoPartialWrites ==
    /\ \A c \in Cycles :
         ("loadfail:inf" \in Tags(c) /\ ~cyc[c].foreign)
            => /\ cyc[c].after \in {cyc[c].priorInf, compressGraph(cyc[c].bySubject)}
               /\ "ev:inference:fail" \in Tags(c)
    /\ \A c \in Cycles :
         ("loadfail:app" \in Tags(c) /\ ~cyc[c].foreign)
            => /\ cyc[c].after \in {cyc[c].priorApp, cyc[c].appDoc}
               /\ "ev:appLoad:fail" \in Tags(c)
    /\ (resp.op \in {"loadFile", "rulesCreate", "rulesDelete"} /\ resp.status = 500
          /\ ~resp.foreign)
            => /\ resp.after \in {resp.prior, resp.data}
               /\ ~resp.ok

\* C4: reload cycles are serialized: a cycle started by a later timer
\* executes no store operation while an earlier cycle is between its first
\* and its last store operation.
C4_CyclesSerialized == \A c \in Cycles : ~cyc[c].overlap

C6_AppUpdateImpliesInferredReloaded ==
    \A c \in Cycles :
        "ev:appUpdate:ok" \in Tags(c) =>
            \/ {"clear:inf", "load:inf"} \subseteq Tags(c)
            \/ {"clear:inf", "norules"} \subseteq Tags(c)

\* The result of the inference run of cycle c, as loaded
Inferred(c) == compressGraph(cyc[c].bySubject)

Succeeded(c) == cyc[c].pc = "done" /\ "load:inf" \in Tags(c)

\* C7: inference is drift-free: two runs in succession, with the rules and
\* every non-inferred graph unchanged between them, leave the same
\* inferred graph after the second run as after the first.
C7_DriftFree ==
    ( /\ Succeeded(1) /\ Succeeded(2)
      /\ nhttp = 0
      /\ ~cyc[2].overlap
      /\ cyc[1].appDoc = cyc[2].appDoc
      /\ cyc[1].rules = cyc[2].rules
      /\ cyc[2].priorInf = cyc[1].after )
        => cyc[2].after = cyc[1].after

\* C8: after any load, every node of every graph maps every key other
\* than @id to an array.
C8_ArrayValuedPredicates ==
    \A g \in Gids : \A e \in store[g] : e.p # "@id" => e.arr

\* C9: a cycle that fails before submitting to the store (the fetch
\* failed, /flows was not an array, or the final check found a non-array
\* value) performs no clear, no load and no query, and runs no inference;
\* it only publishes appLoad ok:false.
C9_EarlyFailureTouchesNothing ==
    \A c \in Cycles :
        ( \/ cyc[c].fetched \in {"httpError", "notArray"}
          \/ (cyc[c].fetched = "ok" /\ findFirstNonArrayPredicate(cyc[c].appDoc)) )
            => /\ cyc[c].ops = 0
               /\ cyc[c].pc = "failed"
               /\ cyc[c].trace = <<"ev:appLoad:fail">>

\* A cycle whose fetch failed, in a store that holds an application graph
\* and an inferred graph from an earlier cycle.
C9_Witness ==
    \E c \in Cycles :
        /\ cyc[c].fetched \in {"httpError", "notArray"}
        /\ cyc[c].pc = "failed"
        /\ store[GID_APP] # {}
        /\ store[GID_INFERRED] # {}

\* C10: compression preserves query answers: for a dataset with only
\* dictionary IRIs as predicates and types and any accepted query,
\* evaluating the rewritten query over the compressed dataset and
\* deep-expanding the bindings gives the bindings of the query over the
\* dataset itself.
C10_CompressionPreservesAnswers ==
    (answer.direct.done /\ answer.served.done /\ query.pre = << >> /\ query.post = << >>)
        => /\ answer.served.ok = answer.direct.ok
           /\ answer.served.results = answer.direct.results

-----------------------------------------------------------------------------
(* The dictionary functions on single strings.                             *)

\* Strings given to z and expandZToken: the dictionary IRIs, the tokens in
\* range, tokens out of range, and strings that are neither.
Strings ==
    { ZURL[i] : i \in 1..Len(ZURL) }
    \cup { ZTok(i) : i \in 0..Len(ZURL) }
    \cup { "z:7", "z:", "urn:x", "N", "see z:1" }

InitDict ==
    /\ boot = Booted
    /\ InitRuntime
    /\ dataset = {}
    /\ query = NoQuery
    /\ answer = NoAnswer
    /\ roundTrip = NoRoundTrip
    /\ crud = << >>
    /\ \E s \in Strings : word = [src |-> s, cur |-> s, ops |-> << >>]

ApplyZ ==
    /\ Len(word.ops) < MaxOps
    /\ word' = [word EXCEPT !.cur = z(word.cur), !.ops = Append(@, "z")]
    /\ UNCHANGED << runtimeVars, queryVars, roundTrip, boot, crud >>

ApplyExpandZToken ==
    /\ Len(word.ops) < MaxOps
    /\ word' = [word EXCEPT !.cur = expandZToken(word.cur),
                            !.ops = Append(@, "expandZToken")]
    /\ UNCHANGED << runtimeVars, queryVars, roundTrip, boot, crud >>

NextDict == ApplyZ \/ ApplyExpandZToken

SpecDict == InitDict /\ [][NextDict]_vars

-----------------------------------------------------------------------------
(* Plugin start: the dictionary is read synchronously; the ontology, rules *)
(* and environment loaders are async functions called one after the other  *)
(* without await, so each runs up to its first await inside the start step *)
(* and finishes in a later step.  boot.log is the history of their starts  *)
(* and ends.                                                               *)

BootIdle == [onto |-> "idle", rules |-> "idle", env |-> "idle", attempt |-> 0,
             app |-> "idle", log |-> << >>, comms |-> "ok", eyeling |-> TRUE,
             file |-> zurlJson, zurl |-> << >>]

InitStartup ==
    /\ boot = BootIdle
    /\ store = [g \in Gids |-> {}]
    /\ now = 0
    /\ appReloadTimer = NoTimer
    /\ flowsCfg \in FlowConfigs
    /\ cyc = [c \in Cycles |-> IdleCycle]
    /\ ncyc = 0
    /\ evTimes = << >>
    /\ http = NoRequest
    /\ nhttp = 0
    /\ resp = NoResponse
    /\ dataset = {}
    /\ query = NoQuery
    /\ answer = NoAnswer
    /\ roundTrip = NoRoundTrip
    /\ word = NoWord
    /\ crud = << >>

\* The module body: loadZurlJsonOnStartup(); loadOntologyJsonLdOnStartup();
\* loadRulesJsonLdOnStartup(); loadEnvironmentWhenAdminApiReady().  A loader
\* whose file does not exist returns at once; otherwise it stops at
\* await urdf.load(dataset).  The readiness wait stops at its first probe.
PluginStart ==
    /\ boot.env = "idle"
    /\ \E ontologyFile \in BOOLEAN : \E rulesFile \in BOOLEAN :
         boot' = [boot EXCEPT
                    !.onto    = IF ontologyFile THEN "loading" ELSE "done",
                    !.rules   = IF rulesFile THEN "loading" ELSE "done",
                    !.env     = "probing",
                    !.attempt = 1,
                    !.zurl    = loadZurlJsonOnStartup(boot.file),
                    !.log     = << "zurl.start", "zurl.done", "onto.start" >>
                                \o (IF ontologyFile THEN << >> ELSE << "onto.done" >>)
                                \o << "rules.start" >>
                                \o (IF rulesFile THEN << >> ELSE << "rules.done" >>)]
    /\ UNCHANGED << runtimeVars, queryVars, roundTrip, word, crud >>

\* await urdf.load(dataset) of the ontology loader returns or throws; both
\* end the loader.
OntologyLoaded ==
    /\ boot.onto = "loading"
    /\ boot' = [boot EXCEPT !.onto = "done", !.log = Append(@, "onto.done")]
    /\ UNCHANGED << runtimeVars, queryVars, roundTrip, word, crud >>

\* await urdf.load(dataset) of the rules loader returns (the rules graph
\* is in the store) or throws (nothing loaded).
RulesLoaded ==
    /\ boot.rules = "loading"
    /\ boot' = [boot EXCEPT !.rules = "done", !.log = Append(@, "rules.done")]
    /\ \E r \in StartupRules : store' = [store EXCEPT ![GID_RULES] = r]
    /\ UNCHANGED << reloadVars, cyc, httpVars >>
    /\ UNCHANGED << queryVars, roundTrip, word, crud >>

\* for (let attempt = 1; attempt <= maxAttempts; attempt++)
ProbeAgainForever(attempt) == TRUE

ProbeAgain(attempt) == attempt + 1 <= maxAttempts

\* await fetchAdminJson("/diagnostics") throws: warn, then sleep(delayMs)
ProbeFails ==
    /\ boot.env = "probing"
    /\ boot' = [boot EXCEPT !.env = "sleeping"]
    /\ UNCHANGED << runtimeVars, queryVars, roundTrip, word, crud >>

\* The sleep is over: the next attempt, or after the last one the message
\* "Env load aborted" is logged and the function returns.
SleepOver ==
    /\ boot.env = "sleeping"
    /\ boot' = IF ProbeAgain(boot.attempt)
               THEN [boot EXCEPT !.env = "probing", !.attempt = @ + 1]
               ELSE [boot EXCEPT !.env = "aborted", !.log = Append(@, "env.aborted")]
    /\ UNCHANGED << runtimeVars, queryVars, roundTrip, word, crud >>

\* The probe is answered: loadEnvironmentOnStartupFromAdminApi() starts.
ProbeSucceeds ==
    /\ boot.env = "probing"
    /\ boot' = [boot EXCEPT !.env = "loading", !.log = Append(@, "env.start")]
    /\ UNCHANGED << runtimeVars, queryVars, roundTrip, word, crud >>

\* loadEnvironmentOnStartupFromAdminApi() ends: the environment graph is
\* loaded, or its own catch has reported the failure; the wait returns.
EnvLoaded ==
    /\ boot.env = "loading"
    /\ \E loaded \in BOOLEAN :
         boot' = [boot EXCEPT !.env = IF loaded THEN "loaded" ELSE "failed",
                              !.log = Append(@, "env.done")]
    /\ UNCHANGED << runtimeVars, queryVars, roundTrip, word, crud >>

\* flows:started, the debounce delay, then loadApplicationFromFlows: the
\* first application load begins.
FirstAppLoad ==
    /\ boot.env # "idle"
    /\ boot.app = "idle"
    /\ boot' = [boot EXCEPT !.app = "started", !.log = Append(@, "app.start")]
    /\ UNCHANGED << runtimeVars, queryVars, roundTrip, word, crud >>

NextStartup ==
    \/ PluginStart
    \/ OntologyLoaded
    \/ RulesLoaded
    \/ ProbeFails
    \/ SleepOver
    \/ ProbeSucceeds
    \/ EnvLoaded
    \/ FirstAppLoad

SpecStartup == InitStartup /\ [][NextStartup]_vars

-----------------------------------------------------------------------------
(* Rules CRUD requests whose handlers overlap.                             *)

\* A rule of a request is a rule node with its text and, when req.part, an
\* embedded part (schema:hasPart) without an @id.
\* The synchronous part of a rules handler over the rules graph as
\* getGraphSafe returns it (compressed): the status it decides and the
\* graph it hands to replaceNamedGraph.  Nodes are found by comparing the
\* stored @id with the @id of the request as given.
RulesRequest(graph, req) ==
    LET rule  == { Entry(req.id, "@type", IdObj(NRUA_RULE)),
                   Entry(req.id, SCHEMA_TEXT, LitObj(req.text)) }
                 \cup ( IF req.part
                        THEN { Entry(req.id, "https://schema.org/hasPart",
                                     NodeObj("", "https://schema.org/SoftwareSourceCode")) }
                        ELSE {} )
        found == \E n \in graph : n.s = req.id
        rest  == { n \in graph : n.s # req.id }
    IN  CASE req.op = "create" ->
               IF found THEN [status |-> 409, next |-> graph]
               ELSE [status |-> 200, next |-> flattenJsonLd(compressGraph(graph \cup rule))]
          [] req.op = "update" ->
               IF ~found THEN [status |-> 404, next |-> graph]
               ELSE [status |-> 200, next |-> flattenJsonLd(compressGraph(rest \cup rule))]
          [] req.op = "delete" ->
               IF rest = graph THEN [status |-> 404, next |-> graph]
               ELSE [status |-> 200, next |-> compressGraph(rest)]

InitRules ==
    /\ boot = Booted
    /\ now = 0
    /\ appReloadTimer = NoTimer
    /\ flowsCfg = {"n1"}
    /\ cyc = [c \in Cycles |-> IdleCycle]
    /\ ncyc = 0
    /\ evTimes = << >>
    /\ http = NoRequest
    /\ nhttp = 0
    /\ resp = NoResponse
    /\ dataset = {}
    /\ query = NoQuery
    /\ answer = NoAnswer
    /\ roundTrip = NoRoundTrip
    /\ word = NoWord
    /\ LET ids  == {RuleIds[1], RuleIds[2], URN_DERIVED}
           reqs == { [op |-> op, id |-> id, text |-> text, part |-> part] :
                       op \in {"create", "update"}, id \in ids, text \in {Q_APP, Q_INF},
                       part \in BOOLEAN }
                   \cup { [op |-> "delete", id |-> id, text |-> "", part |-> FALSE] :
                            id \in ids }
       IN  \E g0 \in { RuleNode(RuleIds[1], Q_APP),
                       RuleNode(RuleIds[1], Q_APP) \cup RuleNode(URN_DERIVED, Q_INF) } :
           \E r1 \in reqs : \E r2 \in reqs :
              /\ store = [g \in Gids |-> IF g = GID_RULES THEN g0 ELSE {}]
              /\ crud = << [req |-> r1, g0 |-> g0, pc |-> "new", next |-> {}, status |-> 0],
                           [req |-> r2, g0 |-> g0, pc |-> "new", next |-> {}, status |-> 0] >>

\* A rules handler up to its first await: the graph is read, the request
\* is answered (409, 404) or replaceNamedGraph starts with urdf.clear.
CrudStart(i) ==
    /\ i \in DOMAIN crud
    /\ crud[i].pc = "new"
    /\ LET r == RulesRequest(store[GID_RULES], crud[i].req) IN
       IF r.status = 200
       THEN /\ store' = Clear(store, GID_RULES)
            /\ crud' = [crud EXCEPT ![i].pc = "loading", ![i].next = r.next]
       ELSE /\ store' = store
            /\ crud' = [crud EXCEPT ![i].pc = "done", ![i].status = r.status]
    /\ UNCHANGED << reloadVars, cyc, httpVars, queryVars, roundTrip, word, boot >>

\* await urdf.load of replaceNamedGraph returns (200) or throws (500).
CrudLoad(i) ==
    /\ i \in DOMAIN crud
    /\ crud[i].pc = "loading"
    /\ \E loaded \in BOOLEAN :
         /\ store' = IF loaded THEN Load(store, GID_RULES, crud[i].next) ELSE store
         /\ crud' = [crud EXCEPT ![i].pc = "done",
                                 ![i].status = IF loaded THEN 200 ELSE 500]
    /\ UNCHANGED << reloadVars, cyc, httpVars, queryVars, roundTrip, word, boot >>

SpecRules == InitRules /\ [][\E i \in 1..2 : CrudStart(i) \/ CrudLoad(i)]_vars

-----------------------------------------------------------------------------

\* C11: round-trip law: for a dataset whose predicate keys and type IRIs
\* are in the dictionary, expandCompressedGraphDeep(compressGraph(
\* flattenJsonLd(D))) equals flattenJsonLd(D) (graphs compared as sets of
\* entries, so up to the order of values); literal values come back
\* unchanged.
C11_RoundTripLaw ==
    roundTrip.done => roundTrip.graph = flattenJsonLd(dataset)

\* C12: dictionary round-trip: for a string s that is a dictionary IRI or a
\* bare token z:<n>, expandZToken(z(s)) = s; a string that is neither is
\* left unchanged by z and by expandZToken.
C12_DictionaryRoundTrip ==
    LET isIri   == \E i \in 1..Len(ZURL) : ZURL[i] = word.src
        isToken == \E n \in 0..9 : word.src = ZTok(n)
    IN  /\ (isIri \/ isToken) /\ word.ops = << "z", "expandZToken" >>
            => word.cur = word.src
        /\ ~isIri /\ ~isToken /\ Len(word.ops) = 1 => word.cur = word.src

\* C13: no response body of GET /urdf/graph, GET /urdf/export,
\* GET /urdf/node or POST /urdf/query contains a token z:<n> with n in
\* range in place of the IRI it stands for (as a key, a type or an @id).
C13_NoTokenInResponses ==
    resp.op \in {"graph", "node"} =>
        \A e \in resp.graph :
            /\ expandZToken(e.s) = e.s
            /\ expandZToken(e.p) = e.p
            /\ e.o.k = "id" => expandZToken(e.o.v) = e.o.v

\* C14: every POST /urdf/query whose text contains a standalone PREFIX or
\* BASE keyword, in any letter case and at any position, is answered with
\* status 400 before any rewriting or evaluation, and the store is as it
\* was.
C14_PrologueRejected ==
    LET text == QueryText(query)
        hasKeyword == \E i \in 1..Len(text) : \E j \in 1..Len(text[i]) :
                          Lower(text[i][j]) \in {"prefix", "base"}
    IN  (answer.served.done /\ hasKeyword)
            => /\ answer.served.status = 400
               /\ store = [g \in Gids |-> {}]

C16_ReadinessWaitTerminates ==
    /\ boot.attempt <= maxAttempts
    /\ boot.env = "aborted" =>
          /\ boot.attempt = maxAttempts
          /\ \A i \in 1..Len(boot.log) : boot.log[i] \notin {"env.start", "env.done"}
          /\ boot.app = "idle" => ENABLED FirstAppLoad

C16_Witness ==
    /\ boot.env = "aborted"
    /\ \E i \in 1..Len(boot.log) : \E j \in 1..Len(boot.log) :
         i < j /\ boot.log[i] = "env.aborted" /\ boot.log[j] = "app.start"

\* C17: the startup loaders run in a fixed order: the dictionary load ends
\* before the ontology load starts, the ontology load ends before the
\* rules load starts, and the rules load ends before the environment load
\* and before the first application load start.
C17_LoadersInOrder ==
    LET Before(a, b) ==
            \A j \in 1..Len(boot.log) :
                boot.log[j] = b => \E i \in 1..(j - 1) : boot.log[i] = a
    IN  /\ Before("zurl.done", "onto.start")
        /\ Before("onto.done", "rules.start")
        /\ Before("rules.done", "env.start")
        /\ Before("rules.done", "app.start")

C19_InferredOnlyByRecompute ==
    [][ store'[GID_INFERRED] # store[GID_INFERRED]
            => (nhttp' = nhttp /\ http' = http) ]_vars

\* C20: POST /urdf/loadFile with a document from which no non-empty @id
\* can be taken is answered 400 with ok false; no clear and no load is
\* made and the store is as it was.
C20_LoadFileWithoutId ==
    [][ \A doc \in Docs :
          (doc.id \in {"", " "} /\ PostLoadFile(doc))
              => /\ resp'.op = "loadFile" /\ resp'.status = 400 /\ ~resp'.ok
                 /\ store' = store
                 /\ http' = http ]_vars

C20_Witness ==
    /\ resp.op = "loadFile" /\ resp.status = 400 /\ ~resp.ok
    /\ store[GID_APP] # {}
    /\ store[GID_INFERRED] # {}

\* C21: POST /urdf/loadFile replaces exactly one named graph: when the
\* request succeeds, the graph named by the @id of the doc holds exactly
\* the content of the doc and every other named graph is as it was.
C21_LoadFileReplacesOneGraph ==
    [][ (http.pc = "loadFile" /\ resp'.op = "loadFile" /\ resp'.status = 200)
            => /\ store'[http.gid] = http.data
               /\ \A g \in Gids \ {http.gid} : store'[g] = store[g] ]_vars

\* C22: POST /urdf/rules/create with a rule whose @id is the @id of a node
\* already in the rules graph is answered 409 and leaves the rules graph
\* as it was, whether or not that @id is in the IRI dictionary.
C22_CreateDuplicateIs409 ==
    [][ \A i \in DOMAIN crud :
          ( /\ crud[i].req.op = "create"
            /\ crud[i].pc = "new" /\ crud'[i].pc # "new"
            /\ \E n \in expandCompressedGraphDeep(store[GID_RULES]) : n.s = crud[i].req.id )
              => (crud'[i].status = 409 /\ store' = store) ]_vars

\* C29: concurrent rules CRUD requests are serializable: when two requests
\* whose handlers overlap have both been answered without a server error,
\* the rules graph is what the two requests give when executed one after
\* the other in some order.
C29_CrudSerializable ==
    LET After(g, req) == LET r == RulesRequest(g, req) IN
                         IF r.status = 200 THEN r.next ELSE g
    IN  ( /\ Len(crud) = 2
          /\ \A i \in 1..2 : crud[i].pc = "done" /\ crud[i].status # 500 )
            => store[GID_RULES] \in
                 { After(After(crud[1].g0, crud[1].req), crud[2].req),
                   After(After(crud[1].g0, crud[2].req), crud[1].req) }

----------------------------------------------------------------------------
(* Inference runs over SPARQL and N3 rules                                 *)

\* C23 as stated: whichever path a rule takes, a run that loads the
\* inferred graph loads no triple whose predicate starts with urn:nrua:pv:.
C23_NoInternalPredicateAnyPath ==
    [][ \A c \in Cycles :
          (cyc[c].pc = "loadInf" /\ cyc'[c].pc = "done" /\ store' # store)
            => \A t \in expandCompressedGraphDeep(store'[GID_INFERRED]) :
                 t.p # "urn:nrua:pv:tmp" ]_vars

\* C23: what the N3 path of a rule adds to the triples a run aggregates
\* has no predicate that starts with urn:nrua:pv:.
C23_NoInternalPredicateFromN3 ==
    [][ \A c \in Cycles :
          ( /\ cyc[c].pc = "rule"
            /\ \E q \in RuleTexts : cyc[c].rules[cyc[c].idx].text = N3(q) )
              => \A t \in cyc'[c].bySubject \ cyc[c].bySubject :
                   t.p # "urn:nrua:pv:tmp" ]_vars

\* A run whose N3 rule had the reasoner derive facts, the helper facts
\* among them, and that aggregated a derived triple.
C23_Witness ==
    \E c \in Cycles :
      /\ boot.eyeling
      /\ cyc[c].pc \in {"clearInf", "loadInf", "done"}
      /\ \E i \in DOMAIN cyc[c].rules : cyc[c].rules[i].text = N3(Q_APP)
      /\ \E t \in cyc[c].bySubject : t.o = LitObj("n3") /\ t.p = URN_DERIVED

\* C24: when the query of a SPARQL rule fails, the run stops there: the
\* run has not cleared or loaded the inferred graph and does not, the
\* step leaves the store as it was, no later rule is executed, and one
\* inference event with ok:false, the only inference event of the run, is
\* published.
C24_QueryFailureStopsRun ==
    [][ \A c \in Cycles :
          ( /\ cyc[c].pc = "rule"
            /\ cyc[c].rules[cyc[c].idx].text = Q_BAD
            /\ cyc'[c].ops # cyc[c].ops )
              => LET tr == cyc'[c].trace
                     n  == Len(tr)
                 IN /\ cyc'[c].pc = "done"
                    /\ cyc'[c].idx = cyc[c].idx
                    /\ store' = store
                    /\ n >= 3
                    /\ tr[n - 2] = "queryfail"
                    /\ tr[n - 1] = "ev:inference:fail"
                    /\ \A i \in 1..n :
                         /\ tr[i] \notin {"clear:inf", "load:inf", "ev:inference:ok"}
                         /\ tr[i] = "ev:inference:fail" => i = n - 1 ]_vars

\* A run ended by the failing query of its first rule, a second rule
\* left unexecuted.
C24_Witness ==
    \E c \in Cycles :
      /\ cyc[c].pc = "done"
      /\ "queryfail" \in Tags(c)
      /\ Len(cyc[c].rules) = 2 /\ cyc[c].idx = 1
      /\ cyc[c].rules[1].text = Q_BAD

\* C25: without the reasoner every N3 rule is skipped (it adds nothing to
\* the aggregate and the run goes on), every SPARQL rule whose query the
\* evaluator accepts is executed and its bindings are aggregated, and the
\* run, when its load of the inferred graph succeeds, loads the aggregate
\* and publishes the inference event with ok:true.
C25_NoReasonerSkipsN3Only ==
    [][ \A c \in Cycles :
          (~boot.eyeling /\ cyc'[c].ops # cyc[c].ops) =>
            /\ cyc[c].pc = "rule" =>
                 LET text == cyc[c].rules[cyc[c].idx].text
                     goOn == /\ cyc'[c].idx = cyc[c].idx + 1
                             /\ cyc'[c].pc = IF cyc[c].idx = Len(cyc[c].rules)
                                              THEN "clearInf" ELSE "rule"
                 IN  IF \E q \in RuleTexts : text = N3(q)
                     THEN goOn /\ cyc'[c].bySubject = cyc[c].bySubject
                     ELSE text # Q_BAD =>
                            /\ goOn
                            /\ cyc'[c].bySubject =
                                 cyc[c].bySubject \cup QueryBindings(text, store)
            /\ (cyc[c].pc = "loadInf" /\ store' # store) =>
                 LET tr == cyc'[c].trace IN
                 /\ compressGraph(cyc[c].bySubject) \subseteq store'[GID_INFERRED]
                 /\ tr[Len(tr) - 1] = "ev:inference:ok" ]_vars

\* Without the reasoner, a successful run over an N3 rule and a SPARQL
\* rule: only the bindings of the SPARQL rule were aggregated.
C25_Witness ==
    \E c \in Cycles :
      /\ ~boot.eyeling
      /\ cyc[c].pc = "done" /\ "load:inf" \in Tags(c)
      /\ Len(cyc[c].rules) = 2
      /\ cyc[c].rules[1].text = N3(Q_APP) /\ cyc[c].rules[2].text = Q_APP
      /\ cyc[c].bySubject # {}
      /\ \A t \in cyc[c].bySubject : t.o = LitObj("same")

\* C26: an N3 rule whose projection query fails adds nothing to the
\* aggregate and touches nothing in the store; the run goes on with the
\* next rule or, after the last rule, with the replace of the inferred
\* graph.
C26_ProjectionFailureSkipsRule ==
    [][ \A c \in Cycles :
          ( /\ cyc[c].pc = "rule"
            /\ cyc[c].rules[cyc[c].idx].text = N3(Q_BAD)
            /\ cyc'[c].ops # cyc[c].ops )
              => /\ cyc'[c].bySubject = cyc[c].bySubject
                 /\ cyc'[c].firedTriples = cyc[c].firedTriples
                 /\ store' = store
                 /\ cyc'[c].idx = cyc[c].idx + 1
                 /\ cyc'[c].pc = IF cyc[c].idx = Len(cyc[c].rules)
                                  THEN "clearInf" ELSE "rule"
                 /\ "ev:inference:fail" \notin
                      { cyc'[c].trace[i] : i \in DOMAIN cyc'[c].trace } ]_vars

\* A run whose first rule is an N3 rule with a failing projection query
\* and which has executed its second rule and replaced the inferred graph.
C26_Witness ==
    \E c \in Cycles :
      /\ cyc[c].pc = "done" /\ "load:inf" \in Tags(c) /\ "projfail" \in Tags(c)
      /\ Len(cyc[c].rules) = 2
      /\ cyc[c].rules[1].text = N3(Q_BAD) /\ cyc[c].rules[2].text = Q_APP
      /\ cyc[c].bySubject # {}
      /\ cyc[c].after = compressGraph(cyc[c].bySubject)

\* C27: a run that finds the rules graph empty executes no rule query,
\* clears the inferred graph, which is empty when the run ends, and
\* publishes one inference event, with 0 rules and 0 triples.
C27_EmptyRulesGraph ==
    [][ \A c \in Cycles :
          /\ ( /\ cyc[c].pc = "loadApp" /\ cyc'[c].pc \notin {"loadApp", "failed"}
               /\ store[GID_RULES] = {} )
                 => cyc'[c].pc = "clearInfEmpty" /\ cyc'[c].rules = << >>
          /\ (cyc[c].pc = "clearInfEmpty" /\ cyc'[c].ops # cyc[c].ops)
                 => LET tr == cyc'[c].trace
                        n  == Len(tr)
                    IN /\ store'[GID_INFERRED] = {}
                       /\ cyc'[c].pc = "done"
                       /\ Len(cyc'[c].rules) = 0 /\ cyc'[c].firedTriples = 0
                       /\ tr[n - 2] = "norules" /\ tr[n - 1] = "ev:inference:ok"
                       /\ \A i \in 1..n :
                            /\ tr[i] \notin {"query", "queryfail", "projfail",
                                              "load:inf", "ev:inference:fail"}
                            /\ tr[i] = "ev:inference:ok" => i = n - 1 ]_vars

\* A run over an empty rules graph that found derived triples in the
\* inferred graph and has ended, the inferred graph empty.
C27_Witness ==
    \E c \in Cycles :
      /\ cyc[c].pc = "done" /\ "norules" \in Tags(c)
      /\ cyc[c].priorInf # {}
      /\ store[GID_INFERRED] = {}

\* C28: the triple count of the inference event of a successful run is
\* the number of derived triples the run aggregated, those of SPARQL
\* rules and those of N3 rules alike.  (No two rules of a rules graph
\* here derive the same triple, so the aggregate's size is that number.)
C28_EventCountsAggregate ==
    \A c \in Cycles :
      (cyc[c].pc = "done" /\ "load:inf" \in Tags(c))
        => cyc[c].firedTriples = Cardinality(cyc[c].bySubject)

\* C30: when a reload cycle ends in success, the application graph holds
\* exactly the nodes the translator gave for the configuration the cycle
\* fetched (stated for the latest cycle, ending while no other cycle is under
\* way).
C30_AppGraphIsFetchedConfig ==
    [][ \A c \in Cycles :
          ( /\ cyc[c].pc \in {"loadInf", "clearInfEmpty"}
            /\ cyc'[c].pc = "done"
            /\ cyc'[c].trace[Len(cyc'[c].trace) - 1] = "ev:inference:ok"
            /\ c = ncyc /\ \A d \in Cycles \ {c} : cyc[d].pc \in {"idle", "done"} )
              => store'[GID_APP] = cyc[c].appDoc ]_vars

----------------------------------------------------------------------------
(* The dictionary as loaded                                                *)

\* C32: for a dictionary IRI, also one that the dictionary names at
\* several indices, the token rewriteQuery writes into a served query is
\* the token compressGraph gave the IRI in the stored dataset, and that is
\* the token z() gives: the one of the first index.
C32_FirstOccurrenceWins ==
    answer.served.done =>
      \A e \in dataset :
        ( /\ query.p.k = "iri" /\ e.p = query.p.v
          /\ \E i \in 1..Len(ZURL) : ZURL[i] = e.p )
            => /\ compressEntry(e).p = z(e.p)
               /\ rewriteQuery(query).p = IriRef(compressEntry(e).p)

\* C33: when the dictionary file is not an array of strings, not an array
\* at all or an array with an item that is not a string, the dictionary
\* stays empty: nothing of a dataset is compressed and nothing of a query
\* is rewritten.
C33_BadDictionaryRejected ==
    ( /\ answer.served.done
      /\ \/ ~boot.file.array
         \/ \E i \in 1..Len(boot.file.items) : boot.file.items[i] = "5" )
        => /\ ZURL = << >>
           /\ compressGraph(dataset) = dataset
           /\ rewriteQuery(query) = query

----------------------------------------------------------------------------
(* rewriteQuery and the keyword a                                          *)

\* C31: rewriteQuery replaces a reference to the index-0 IRI by the
\* keyword a exactly when it stands in predicate position outside every
\* call; in subject or object position and inside a call, at any depth,
\* it is never replaced by a.
C31_KeywordAOnlyAsPredicate ==
    word.ops = << "rewriteQuery" >> =>
      /\ word.cur.p = KeywordA <=> word.src.p = IriRef(ZURL[1])
      /\ word.cur.s # KeywordA
      /\ word.cur.o # KeywordA
      /\ \A i \in DOMAIN word.cur.filter : word.cur.filter[i] # KeywordA

----------------------------------------------------------------------------
(* flattenJsonLd and nodes without an @id                                  *)

\* C34: flattenJsonLd gives every node of its input that has no @id, at
\* top level or embedded, a generated id that is the @id of no node or
\* reference of the input, and the node is in the output under that id.
C34_GeneratedIdsAreFresh ==
    roundTrip.done =>
      LET out      == flattenJsonLd(dataset)
          inputIds == ({ e.s : e \in dataset }
                       \cup { e.o.v : e \in { x \in dataset : x.o.k \in {"node", "id"} } })
                      \ {""}
          fresh    == { e.s : e \in out } \ inputIds
      IN  /\ \A e \in dataset :
               (e.s = "" /\ e.o.k # "node")
                 => \E id \in fresh : [flattenEntry(e) EXCEPT !.s = id] \in out
          /\ \A e \in dataset :
               (e.s # "" /\ e.o.k = "node" /\ e.o.v = "")
                 => \E id \in fresh :
                      /\ [flattenEntry(e) EXCEPT !.o = IdObj(id)] \in out
                      /\ Entry(id, "@type", IdObj(e.o.t)) \in out

----------------------------------------------------------------------------
(* Create, then delete                                                     *)

\* C36: after a create of rule r and a delete of r's @id, both answered
\* 200, the rules graph is the rules graph from before the create, also
\* when r embeds a part node.  (The delete of an @id is answered 200 only
\* when it read the graph after the create of that @id had loaded it.)
C36_CreateDeleteRestores ==
    \A i \in DOMAIN crud : \A j \in DOMAIN crud :
       ( /\ crud[i].req.op = "create" /\ crud[j].req.op = "delete"
         /\ crud[i].req.id = crud[j].req.id
         /\ crud[i].req.id \notin { expandZToken(n.s) : n \in crud[i].g0 }
         /\ crud[i].pc = "done" /\ crud[i].status = 200
         /\ crud[j].pc = "done" /\ crud[j].status = 200 )
           => store[GID_RULES] = crud[i].g0

\* C37: a rule whose schema:programmingLanguage is sparql is run on the
\* SPARQL path whatever its schema:encodingFormat is: the encoding format
\* is consulted only when the rule has no programming language.
C37_LanguageSelectsPath ==
    ( /\ word.ops = << "isN3Rule" >>
      /\ word.src.programmingLanguage = LangSparql )
        => word.cur = "sparql"

\* C35: the ids of the translator are injective.  In the graph made from a
\* flows array, a NodeOutput stands for one gate of one node (one gate
\* index, referenced by one node) and a PropertyValue for one key (one
\* name): two (node id, gate) pairs, or two keys under one parent, never
\* share an @id.
C35_IdsAreInjective ==
    word.ops = << "buildAppJsonLdFromFlows" >> =>
       \A e1 \in word.cur : \A e2 \in word.cur :
          /\ ( /\ e1.p = z(NRUA \o "fromGate") /\ e2.p = e1.p /\ e1.s = e2.s ) => e1.o = e2.o
          /\ ( /\ e1.p = z(NRUA \o "hasOutput") /\ e2.p = e1.p /\ e1.o = e2.o ) => e1.s = e2.s
          /\ ( /\ e1.p = z("https://schema.org/name") /\ e2.p = e1.p /\ e1.s = e2.s
               /\ Entry(e1.s, "@type", IdObj(z("https://schema.org/PropertyValue"))) \in word.cur )
                => e1.o = e2.o

\* C38: for every node that is not a tab and every gate g of its wires
\* with targets, the graph has one NodeOutput with gate index g and
\* references to the targets of g and to nothing else, and the node
\* refers to it by hasOutput; the node has no other hasOutput reference,
\* so a gate without targets gives no NodeOutput.
C38_OneNodeOutputPerWiredGate ==
    word.ops = << "buildAppJsonLdFromFlows" >> =>
       \A i \in DOMAIN word.src :
          LET n     == word.src[i]
              gates == { g \in 0..(Len(n.wires) - 1) : n.wires[g + 1] # << >> }
              out(g) == "urn:nrua:o" \o asString(n.id) \o asString(String(g))
          IN  n.type # "tab" =>
                /\ \A g \in gates :
                     /\ { e.o : e \in { x \in word.cur : x.s = out(g) /\ x.p = z(NRUA \o "fromGate") } }
                          = { LitObj(asString(String(g))) }
                     /\ { e.o : e \in { x \in word.cur : x.s = out(g) /\ x.p = z(NRUA \o "toNode") } }
                          = { IdObj(nodeId(asString(n.wires[g + 1][j]))) : j \in DOMAIN n.wires[g + 1] }
                     /\ Entry(out(g), "@type", IdObj(z(NRUA \o "NodeOutput"))) \in word.cur
                /\ { e.o : e \in { x \in word.cur : x.s = nodeId(asString(n.id))
                                                       /\ x.p = z(NRUA \o "hasOutput") } }
                     = { IdObj(out(g)) : g \in gates }

\* C39: for every node that is not a tab, no PropertyValue linked from the
\* node is named id, type, z, x, y, wires, info, d, g, label, disabled,
\* env or name, and every other key of the node has a PropertyValue with
\* its name linked from the node.
C39_ExcludedKeysNeverEmitted ==
    word.ops = << "buildAppJsonLdFromFlows" >> =>
       \A i \in DOMAIN word.src :
          LET n      == word.src[i]
              linked == { e.o.v : e \in { x \in word.cur :
                                            /\ x.s = nodeId(asString(n.id))
                                            /\ x.p = z("https://schema.org/additionalProperty") } }
              names  == { e.o.v : e \in { x \in word.cur :
                                            /\ x.p = z("https://schema.org/name")
                                            /\ x.s \in linked
                                            /\ Entry(x.s, "@type",
                                                     IdObj(z("https://schema.org/PropertyValue")))
                                                 \in word.cur } }
              never  == { K_id, K_type, K_z, K_x, K_y, K_wires, K_info, K_d, K_g,
                          K_label, K_disabled, K_env, K_name }
          IN  n.type # "tab" =>
                names = { asString(k) : k \in DOMAIN n.own \ never }

\* A node with excluded keys and a key that is kept has been translated.
C39_Witness ==
    /\ word.ops = << "buildAppJsonLdFromFlows" >>
    /\ \E i \in DOMAIN word.src :
          /\ word.src[i].type # "tab"
          /\ { K_info, K_d, K_g } \subseteq DOMAIN word.src[i].own
          /\ \E e \in word.cur : e.p = z("https://schema.org/name") /\ e.o = LitObj("payload")

====
